---- MODULE Spec2Model ----
(***************************************************************************)
(* Fast-FEM: planar frame/truss solver (FEMSystem) and the editor          *)
(* operations of GUIHandler that mutate it and re-solve.                   *)
(*                                                                         *)
(* Arithmetic.  The program computes in IEEE doubles.  The model computes  *)
(* in exact rationals <<n, d>> (d > 0, lowest terms) and keeps one         *)
(* non-finite value, NaN == <<0, 0>>, which every division by zero yields  *)
(* and every operation propagates, as IEEE does for 0/0.  Inputs are drawn *)
(* from sets on which sqrt, cos and sin are rational, so that no rounding  *)
(* is involved.  Indices (nodes, DOFs, catalog entries) are 0-based as in  *)
(* the source; the node, beam and catalog lists are sequences, so entry i  *)
(* of the source is element i + 1 of the sequence.                         *)
(***************************************************************************)
EXTENDS Integers, Sequences, FiniteSets, TLC

\* ------------------------------------------------------------------------
\* Exact rational arithmetic standing for double arithmetic
\* ------------------------------------------------------------------------

Abs(n) == IF n < 0 THEN -n ELSE n

RECURSIVE GCD(_, _)
GCD(a, b) == IF b = 0 THEN a ELSE GCD(b, a % b)

NaN == <<0, 0>>

IsNaN(a) == a[2] = 0

\* n / d in lowest terms with a positive denominator; anything over 0 is NaN
Rat(n, d) ==
    IF d = 0 THEN NaN
    ELSE IF n = 0 THEN <<0, 1>>
    ELSE LET g == GCD(Abs(n), Abs(d))
             s == IF d < 0 THEN -1 ELSE 1
         IN  <<(s * n) \div g, (s * d) \div g>>

R(n) == <<n, 1>>

Zero == <<0, 1>>

One == <<1, 1>>

RAdd(a, b) ==
    IF IsNaN(a) \/ IsNaN(b) THEN NaN
    ELSE IF a[1] = 0 THEN b
    ELSE IF b[1] = 0 THEN a
    ELSE LET g == GCD(a[2], b[2])
         IN  Rat(a[1] * (b[2] \div g) + b[1] * (a[2] \div g), (a[2] \div g) * b[2])

RNeg(a) == <<-a[1], a[2]>>

RSub(a, b) == RAdd(a, RNeg(b))

RMul(a, b) ==
    IF IsNaN(a) \/ IsNaN(b) THEN NaN
    ELSE IF a[1] = 0 \/ b[1] = 0 THEN Zero
    ELSE LET g1 == GCD(Abs(a[1]), b[2])
             g2 == GCD(Abs(b[1]), a[2])
         IN  <<(a[1] \div g1) * (b[1] \div g2), (a[2] \div g2) * (b[2] \div g1)>>

\* IEEE division: a zero divisor gives a non-finite quotient, never a trap
RDiv(a, b) ==
    IF IsNaN(a) \/ IsNaN(b) \/ b[1] = 0 THEN NaN
    ELSE RMul(a, Rat(b[2], b[1]))

RAbs(a) == <<Abs(a[1]), a[2]>>

\* a / b < c / d for b, d > 0, by integer parts and then the reciprocals of
\* the fractional parts (no product that could leave the integer range)
RECURSIVE FracLt(_, _, _, _)
FracLt(a, b, c, d) ==
    IF a \div b # c \div d THEN a \div b < c \div d
    ELSE IF c % d = 0 THEN FALSE
    ELSE IF a % b = 0 THEN TRUE
    ELSE FracLt(d, c % d, b, a % b)

\* every comparison with NaN is false
RLt(a, b) == ~IsNaN(a) /\ ~IsNaN(b) /\ FracLt(a[1], a[2], b[1], b[2])

RGt(a, b) == RLt(b, a)

\* std::max(a, b) is (a < b) ? b : a, std::min(a, b) is (b < a) ? b : a
StdMax(a, b) == IF RLt(a, b) THEN b ELSE a

StdMin(a, b) == IF RLt(b, a) THEN b ELSE a

\* std::sqrt on the perfect squares the input sets produce
Sqrt(n) == CHOOSE r \in 0..n : r * r = n

\* ------------------------------------------------------------------------
\* Dense vectors and matrices (Eigen::VectorXd, Eigen::MatrixXd), 0-based
\* ------------------------------------------------------------------------

\* a function as an explicit table (TLC otherwise re-evaluates the defining
\* expression at every application)
Table(f) == IF f = f THEN f ELSE f

Size(v) == Cardinality(DOMAIN v)

ZeroVec(n) == [i \in 0..(n - 1) |-> Zero]

ZeroMat(n, m) == [i \in 0..(n - 1) |-> [j \in 0..(m - 1) |-> Zero]]

RECURSIVE DotFrom(_, _, _)
DotFrom(a, b, k) ==
    IF k \notin DOMAIN a THEN Zero
    ELSE RAdd(RMul(a[k], b[k]), DotFrom(a, b, k + 1))

Dot(a, b) == DotFrom(a, b, 0)

MatVec(M, v) == Table([i \in DOMAIN M |-> Dot(M[i], v)])

Transpose(M, n, m) == Table([j \in 0..(m - 1) |-> [i \in 0..(n - 1) |-> M[i][j]]])

MatMul(A, B, n, k, m) ==
    Table([i \in 0..(n - 1) |->
              [j \in 0..(m - 1) |-> Dot(A[i], [t \in 0..(k - 1) |-> B[t][j]])]])

VecSub(a, b) == Table([i \in DOMAIN a |-> RSub(a[i], b[i])])

\* ------------------------------------------------------------------------
\* Element Stiffness Formulator (Beam::compute_stiffness)
\* ------------------------------------------------------------------------

\* 6x6 matrix given by its non-zero entries, a function from <<i, j>> to value
Sparse6(entries) ==
    Table([i \in 0..5 |-> [j \in 0..5 |->
        IF <<i, j>> \in DOMAIN entries THEN entries[<<i, j>>] ELSE Zero]])

\* the block rotation T built from the direction cosines c, s
RotationT(c, s) ==
    Sparse6(<<0, 0>> :> c @@ <<0, 1>> :> s @@ <<1, 0>> :> RNeg(s) @@ <<1, 1>> :> c
         @@ <<2, 2>> :> One
         @@ <<3, 3>> :> c @@ <<3, 4>> :> s @@ <<4, 3>> :> RNeg(s) @@ <<4, 4>> :> c
         @@ <<5, 5>> :> One)

\* the local (element-axis) stiffness matrix k_prime
LocalStiffness(EA_over_L, EI_over_L, EI_over_L2, EI_over_L3) ==
    LET a   == EA_over_L
        k12 == RMul(R(12), EI_over_L3)
        k6  == RMul(R(6), EI_over_L2)
        k4  == RMul(R(4), EI_over_L)
        k2  == RMul(R(2), EI_over_L)
    IN  Sparse6(<<0, 0>> :> a @@ <<0, 3>> :> RNeg(a) @@ <<3, 0>> :> RNeg(a) @@ <<3, 3>> :> a
             @@ <<1, 1>> :> k12 @@ <<1, 2>> :> k6 @@ <<1, 4>> :> RNeg(k12) @@ <<1, 5>> :> k6
             @@ <<2, 1>> :> k6 @@ <<2, 2>> :> k4 @@ <<2, 4>> :> RNeg(k6) @@ <<2, 5>> :> k2
             @@ <<4, 1>> :> RNeg(k12) @@ <<4, 2>> :> RNeg(k6) @@ <<4, 4>> :> k12
             @@ <<4, 5>> :> RNeg(k6)
             @@ <<5, 1>> :> k6 @@ <<5, 2>> :> k2 @@ <<5, 4>> :> RNeg(k6) @@ <<5, 5>> :> k4)

\* the same without the truss flag: the section's moment of inertia is used
compute_stiffness_ignoring_flag(E, A, I0, dx, dy, is_truss) ==
    LET L == Sqrt(dx * dx + dy * dy)
    IN  IF L = 0 THEN ZeroMat(6, 6)
        ELSE MatMul(MatMul(Transpose(RotationT(Rat(dx, L), Rat(dy, L)), 6, 6),
                           LocalStiffness(RDiv(RMul(E, A), R(L)),
                                          RDiv(RMul(E, I0), R(L)),
                                          RDiv(RMul(E, I0), R(L * L)),
                                          RDiv(RMul(E, I0), R(L * L * L))),
                           6, 6, 6),
                    RotationT(Rat(dx, L), Rat(dy, L)), 6, 6, 6)

\* k_matrix of one element: E, A, I are the catalog values, <<dx, dy>> the
\* vector from endpoint 1 to endpoint 2
compute_stiffness(E, A, I0, dx, dy, is_truss) ==
    LET I == IF is_truss THEN Zero ELSE I0
        L == Sqrt(dx * dx + dy * dy)
    IN  IF L = 0 THEN ZeroMat(6, 6)
        ELSE LET c          == Rat(dx, L)
                 s          == Rat(dy, L)
                 EA_over_L  == RDiv(RMul(E, A), R(L))
                 EI_over_L  == RDiv(RMul(E, I), R(L))
                 EI_over_L2 == RDiv(EI_over_L, R(L))
                 EI_over_L3 == RDiv(EI_over_L2, R(L))
                 k_prime    == LocalStiffness(EA_over_L, EI_over_L, EI_over_L2, EI_over_L3)
                 T          == RotationT(c, s)
             IN  MatMul(MatMul(Transpose(T, 6, 6), k_prime, 6, 6, 6), T, 6, 6, 6)

\* ------------------------------------------------------------------------
\* Dense direct solve (Eigen's FullPivLU, as called by solve_system)
\* ------------------------------------------------------------------------

\* The elimination state: the matrix M and right-hand side c, both with the
\* row and column swaps applied so far, and q, where q[i] is the original
\* column now standing at position i.

\* maxCoeff of |M| over the corner k..n-1: the first maximum met in a
\* column-by-column scan
PivotOf(M, n, k) ==
    LET idx  == k..(n - 1)
        vals == {RAbs(M[i][j]) : i \in idx, j \in idx}
        big  == CHOOSE v \in vals : \A w \in vals : ~RLt(v, w)
        has(j) == \E i \in idx : RAbs(M[i][j]) = big
        col  == CHOOSE j \in idx : has(j) /\ \A j2 \in idx : j2 < j => ~has(j2)
        row  == CHOOSE i \in idx :
                    /\ RAbs(M[i][col]) = big
                    /\ \A i2 \in idx : i2 < i => RAbs(M[i2][col]) # big
    IN  <<row, col>>

SwapIdx(i, a, b) == IF i = a THEN b ELSE IF i = b THEN a ELSE i

\* one elimination step at position k with the pivot found at <<pr, pc>>
Eliminate(st, n, k, pr, pc) ==
    LET M1 == Table([i \in 0..(n - 1) |-> [j \in 0..(n - 1) |->
                  st.M[SwapIdx(i, k, pr)][SwapIdx(j, k, pc)]]])
        c1 == Table([i \in 0..(n - 1) |-> st.c[SwapIdx(i, k, pr)]])
        q1 == Table([j \in 0..(n - 1) |-> st.q[SwapIdx(j, k, pc)]])
        f  == Table([i \in 0..(n - 1) |->
                  IF i > k THEN RDiv(M1[i][k], M1[k][k]) ELSE Zero])
    IN  Table([M |-> [i \in 0..(n - 1) |-> [j \in 0..(n - 1) |->
                  IF i > k /\ j >= k THEN RSub(M1[i][j], RMul(f[i], M1[k][j]))
                  ELSE M1[i][j]]],
               c |-> [i \in 0..(n - 1) |->
                  IF i > k THEN RSub(c1[i], RMul(f[i], c1[k])) ELSE c1[i]],
               q |-> q1,
               rank |-> k + 1])

\* the decomposition stops at the first corner that is entirely zero
RECURSIVE Decompose(_, _, _)
PivotStep(st, n, k, p) ==
    IF st.M[p[1]][p[2]][1] = 0 THEN st
    ELSE Decompose(Eliminate(st, n, k, p[1], p[2]), n, k + 1)

Decompose(st, n, k) == IF k >= n THEN st ELSE PivotStep(st, n, k, PivotOf(st.M, n, k))

\* A.fullPivLu() with the right-hand side b carried along: the eliminated
\* matrix and right-hand side, the column permutation and the rank (the
\* number of non-zero pivots, n exactly when A is invertible)
fullPivLu(A, b, n) ==
    Decompose(Table([M |-> A, c |-> b, q |-> [j \in 0..(n - 1) |-> j], rank |-> 0]), n, 0)

\* back substitution on the leading rank x rank triangle; y holds the
\* unknowns i+1..rank-1 already found
RECURSIVE BackSub(_, _, _)
BackSub(st, i, y) ==
    IF i < 0 THEN y
    ELSE BackSub(st, i - 1,
             Table([y EXCEPT ![i] =
                 RDiv(RSub(st.c[i], DotFrom([j \in DOMAIN y |-> st.M[i][j]], y, i + 1)),
                      st.M[i][i])]))

\* the unknowns back in the original column order; those of the columns
\* without pivot are zero
Unpermute(st, y, n) ==
    Table([j \in 0..(n - 1) |->
        LET pos == CHOOSE i \in 0..(n - 1) : st.q[i] = j
        IN  IF pos < st.rank THEN y[pos] ELSE Zero])

\* lu.solve(b) for a square n x n matrix: always a vector of n entries
LuSolve(st, n) ==
    Unpermute(st, BackSub(st, st.rank - 1, [j \in 0..(st.rank - 1) |-> Zero]), n)

\* ------------------------------------------------------------------------
\* Data model (node.h, beam.h, beam_props.h, fem_system.h)
\* ------------------------------------------------------------------------

ConstraintType == {"Free", "Fixed", "FixedPin", "Slider"}

Node(x, y, ct, angle) ==
    [position |-> <<x, y>>, constraint_type |-> ct, constraint_angle |-> angle]

\* Beam(n1, n2, mat, shp, is_truss): k_matrix starts empty, stress 0;
\* axial_force and max_moment are not initialised by the constructor
Beam(n1, n2, mat, shp, truss, g) ==
    [nodes |-> <<n1, n2>>, material_idx |-> mat, shape_idx |-> shp, is_truss |-> truss,
     k_matrix |-> <<>>, axial_force |-> g, max_moment |-> g, stress |-> Zero]

MaterialProfile(name, E) == [name |-> name, youngs_modulus |-> E]

BeamProfile(name, A, I, S) ==
    [name |-> name, area |-> A, moment_of_inertia |-> I, section_modulus |-> S]

\* std::cos / std::sin of an angle in degrees, on the angles the model uses
\* (53 and 143 stand for atan(4/3) and atan(4/3) + 90)
CosDeg(a) ==
    CASE a % 360 = 0 -> One
      [] a % 360 = 90 -> Zero
      [] a % 360 = 180 -> R(-1)
      [] a % 360 = 270 -> Zero
      [] a % 360 = 53 -> Rat(3, 5)
      [] a % 360 = 143 -> Rat(-4, 5)

SinDeg(a) ==
    CASE a % 360 = 0 -> Zero
      [] a % 360 = 90 -> One
      [] a % 360 = 180 -> Zero
      [] a % 360 = 270 -> R(-1)
      [] a % 360 = 53 -> Rat(4, 5)
      [] a % 360 = 143 -> Rat(3, 5)

\* ------------------------------------------------------------------------
\* FEMSystem::solve_system and its parts
\* ------------------------------------------------------------------------

\* v.resize(n) in its place: no entry keeps its value
resizeDiscarding(v, n, g) == Table([i \in 0..(n - 1) |-> g])

\* v.conservativeResize(n): kept entries keep their value, new entries are
\* not initialised (g is whatever the memory holds)
conservativeResize(v, n, g) ==
    Table([i \in 0..(n - 1) |-> IF i \in DOMAIN v THEN v[i] ELSE g])

NodeInRange(S, n) == n >= 0 /\ n < Len(S.nodes)

MaterialInRange(S, b) == b.material_idx >= 0 /\ b.material_idx < Len(S.materials_list)

ShapeInRange(S, b) == b.shape_idx >= 0 /\ b.shape_idx < Len(S.beam_profiles_list)

\* the invariant of the data model that solve_system assumes of every beam
BeamValid(S, b) ==
    /\ NodeInRange(S, b.nodes[1]) /\ NodeInRange(S, b.nodes[2])
    /\ b.nodes[1] # b.nodes[2]
    /\ MaterialInRange(S, b) /\ ShapeInRange(S, b)

\* an index past its vector is undefined behaviour: the read, when the
\* process survives it, yields whatever the memory holds (g)
NodePosition(S, n) == IF NodeInRange(S, n) THEN S.nodes[n + 1].position ELSE <<0, 0>>

MaterialOf(S, b, g) ==
    IF MaterialInRange(S, b) THEN S.materials_list[b.material_idx + 1]
    ELSE MaterialProfile("", g)

ShapeOf(S, b, g) ==
    IF ShapeInRange(S, b) THEN S.beam_profiles_list[b.shape_idx + 1]
    ELSE BeamProfile("", g, g, g)

IndexFault(S) ==
    \E i \in 1..Len(S.beams) :
        LET b == S.beams[i]
        IN  \/ ~NodeInRange(S, b.nodes[1]) \/ ~NodeInRange(S, b.nodes[2])
            \/ ~MaterialInRange(S, b) \/ ~ShapeInRange(S, b)

\* step 1: beam.compute_stiffness(nodes, materials_list, beam_profiles_list)
BeamStiffness(S, b, g) ==
    LET p1 == NodePosition(S, b.nodes[1])
        p2 == NodePosition(S, b.nodes[2])
        sh == ShapeOf(S, b, g)
    IN  compute_stiffness(MaterialOf(S, b, g).youngs_modulus, sh.area,
                          sh.moment_of_inertia, p2[1] - p1[1], p2[2] - p1[2], b.is_truss)

Sum6(v) == RAdd(RAdd(RAdd(v[0], v[1]), RAdd(v[2], v[3])), RAdd(v[4], v[5]))

BeamDofs(b) ==
    LET n1 == b.nodes[1]
        n2 == b.nodes[2]
    IN  [i \in 0..5 |-> IF i < 3 THEN n1 * 3 + i ELSE n2 * 3 + (i - 3)]

\* what one element adds to global_k_matrix(r, c)
Scatter(b, r, c) ==
    LET dofs == BeamDofs(b)
    IN  IF (\A i \in 0..5 : dofs[i] # r) \/ (\A j \in 0..5 : dofs[j] # c) THEN Zero
        ELSE Sum6([i \in 0..5 |->
                 IF dofs[i] # r THEN Zero
                 ELSE Sum6([j \in 0..5 |-> IF dofs[j] = c THEN b.k_matrix[i][j] ELSE Zero])])

\* the same with = in the place of +=: an entry holds the contribution of
\* the last element that maps to it
RECURSIVE AssembleFromOverwriting(_, _, _)
AssembleFromOverwriting(bs, i, K) ==
    IF i > Len(bs) THEN K
    ELSE AssembleFromOverwriting(bs, i + 1,
             Table([r \in DOMAIN K |-> [c \in DOMAIN K |->
                 IF \E m \in 0..5, n \in 0..5 :
                        BeamDofs(bs[i])[m] = r /\ BeamDofs(bs[i])[n] = c
                 THEN Scatter(bs[i], r, c) ELSE K[r][c]]]))

RECURSIVE AssembleFrom(_, _, _)
AssembleFrom(bs, i, K) ==
    IF i > Len(bs) THEN K
    ELSE AssembleFrom(bs, i + 1,
             Table([r \in DOMAIN K |-> [c \in DOMAIN K |-> RAdd(K[r][c], Scatter(bs[i], r, c))]]))

\* step 2: global_k_matrix from the beams' k_matrix
assemble_global_stiffness(bs, num_nodes) ==
    AssembleFrom(bs, 1, ZeroMat(num_nodes * 3, num_nodes * 3))

\* the same with a FixedPin node's translations taken as free and its
\* rotation as held
NodeFreeDofsPinHoldsRotation(ct, i) ==
    CASE ct = "Free" -> <<i * 3, i * 3 + 1, i * 3 + 2>>
      [] ct = "Slider" -> <<i * 3, i * 3 + 1, i * 3 + 2>>
      [] ct = "FixedPin" -> <<i * 3, i * 3 + 1>>
      [] ct = "Fixed" -> <<>>

\* step 3: the free DOF list, in node order
NodeFreeDofs(ct, i) ==
    CASE ct = "Free" -> <<i * 3, i * 3 + 1, i * 3 + 2>>
      [] ct = "Slider" -> <<i * 3, i * 3 + 1, i * 3 + 2>>
      [] ct = "FixedPin" -> <<i * 3 + 2>>
      [] ct = "Fixed" -> <<>>

RECURSIVE FreeDofsFrom(_, _)
FreeDofsFrom(ns, i) ==
    IF i >= Len(ns) THEN <<>>
    ELSE NodeFreeDofs(ns[i + 1].constraint_type, i) \o FreeDofsFrom(ns, i + 1)

free_dof_indices(ns) == FreeDofsFrom(ns, 0)

\* step 5: the slider nodes, in node order
RECURSIVE SlidersFrom(_, _)
SlidersFrom(ns, i) ==
    IF i >= Len(ns) THEN <<>>
    ELSE (IF ns[i + 1].constraint_type = "Slider" THEN <<i>> ELSE <<>>) \o SlidersFrom(ns, i + 1)

\* the same with the FixedPin nodes taken for sliders as well
RECURSIVE slider_nodes_and_pins(_)
slider_nodes_and_pins(ns) ==
    IF ns = <<>> THEN <<>>
    ELSE slider_nodes_and_pins(SubSeq(ns, 1, Len(ns) - 1))
         \o (IF ns[Len(ns)].constraint_type \in {"Slider", "FixedPin"}
             THEN <<Len(ns) - 1>> ELSE <<>>)

slider_nodes(ns) == SlidersFrom(ns, 0)

\* the row built from the track direction instead of its normal
generate_constraint_row_along_track(ns, index, free) ==
    LET node  == ns[index + 1]
        a_x   == CosDeg(node.constraint_angle)
        a_y   == SinDeg(node.constraint_angle)
        dof_x == index * 3
        dof_y == index * 3 + 1
    IN  [j \in 0..(Len(free) - 1) |->
            IF node.constraint_type # "Slider" THEN Zero
            ELSE IF free[j + 1] = dof_x THEN a_x
            ELSE IF free[j + 1] = dof_y THEN a_y
            ELSE Zero]

\* one row of C over the free-DOF basis
generate_constraint_row(ns, index, free) ==
    LET node         == ns[index + 1]
        normal_angle == node.constraint_angle + 90
        a_x          == CosDeg(normal_angle)
        a_y          == SinDeg(normal_angle)
        dof_x        == index * 3
        dof_y        == index * 3 + 1
    IN  [j \in 0..(Len(free) - 1) |->
            IF node.constraint_type # "Slider" THEN Zero
            ELSE IF free[j + 1] = dof_x THEN a_x
            ELSE IF free[j + 1] = dof_y THEN a_y
            ELSE Zero]

RECURSIVE SumFrom(_, _)
SumFrom(v, k) == IF k \notin DOMAIN v THEN Zero ELSE RAdd(v[k], SumFrom(v, k + 1))

\* the least integer r with r * r >= N
CeilSqrt(N) == CHOOSE r \in 0..N : r * r >= N /\ (r = 0 \/ (r - 1) * (r - 1) < N)

\* the least integer not below the rational a
Ceil(a) == (a[1] + a[2] - 1) \div a[2]

\* K_r.norm(), the Frobenius norm, rounded up to the next integer (the
\* norm only scales the constraint rows; the multipliers are scaled back)
Norm(M) == CeilSqrt(Ceil(SumFrom([i \in DOMAIN M |-> Dot(M[i], M[i])], 0)))

\* 1e10f, the value min_stress / max_stress are reset to (negated for max);
\* scaled down to fit the model's integers, still above every stress here
StressSentinel == 1000000

\* std::abs(shape.section_modulus) < 1e-12, on section moduli that are 0 or
\* far above the threshold
SectionModulusNegligible(Z) == Z[1] = 0

\* u_r and lagrange_multipliers cut out of the solved vector
SplitSolution(full_solution, rank, nf, nc, constraint_scale) ==
    [u_r |-> Table([i \in 0..(nf - 1) |-> full_solution[i]]),
     lambda |-> Table([ci \in 0..(nc - 1) |->
                    RMul(full_solution[nf + ci], constraint_scale)]),
     size |-> Size(full_solution),
     rank |-> rank,
     augmented_size |-> nf + nc]

Solution(st, nf, nc, constraint_scale) ==
    SplitSolution(LuSolve(st, nf + nc), st.rank, nf, nc, constraint_scale)

\* [ K_r  C^T ; C  0 ] with the rows of C scaled
SaddleMatrix(K_r, C_r, nf, nc, constraint_scale) ==
    Table([i \in 0..(nf + nc - 1) |-> [j \in 0..(nf + nc - 1) |->
        IF i < nf /\ j < nf THEN K_r[i][j]
        ELSE IF i < nf THEN RMul(C_r[j - nf][i], constraint_scale)
        ELSE IF j < nf THEN RMul(C_r[i - nf][j], constraint_scale)
        ELSE Zero]])

SaddleRhs(F_r, nf, nc) ==
    Table([i \in 0..(nf + nc - 1) |-> IF i < nf THEN F_r[i] ELSE Zero])

SolveSaddle(K_r, F_r, C_r, nf, nc, constraint_scale) ==
    Solution(fullPivLu(SaddleMatrix(K_r, C_r, nf, nc, constraint_scale),
                       SaddleRhs(F_r, nf, nc), nf + nc),
             nf, nc, constraint_scale)

ConstraintScale(k_scale) == IF k_scale > 0 THEN R(k_scale) ELSE One

\* the solved reduced displacement u_r and the multipliers, by either path
SolveReduced(K_r, F_r, C_r, nf, nc) ==
    IF nc = 0
    THEN Solution(fullPivLu(K_r, F_r, nf), nf, 0, One)
    ELSE SolveSaddle(K_r, F_r, C_r, nf, nc, ConstraintScale(Norm(K_r)))

\* local_end_forces = T * (k_matrix * element_disp) of one beam
LocalEndForces(S, b, u, g) ==
    LET n1 == b.nodes[1]
        n2 == b.nodes[2]
        at(i) == IF i \in DOMAIN u THEN u[i] ELSE g
        element_disp == Table([i \in 0..5 |->
                            IF i < 3 THEN at(n1 * 3 + i) ELSE at(n2 * 3 + (i - 3))])
        p1 == NodePosition(S, n1)
        p2 == NodePosition(S, n2)
        dx == p2[1] - p1[1]
        dy == p2[2] - p1[2]
        L  == Sqrt(dx * dx + dy * dy)
    IN  MatVec(RotationT(RDiv(R(dx), R(L)), RDiv(R(dy), R(L))),
               MatVec(b.k_matrix, element_disp))

\* the same with the tension side stored whatever the magnitudes
CombinedStressTensionSide(shape, axial_stress, bending_stress_max) ==
    IF SectionModulusNegligible(shape.section_modulus) THEN axial_stress
    ELSE RAdd(axial_stress, bending_stress_max)

\* the combined stress that is larger in magnitude (ties: the compression side)
CombinedStress(shape, axial_stress, bending_stress_max) ==
    LET stress_tension     == RAdd(axial_stress, bending_stress_max)
        stress_compression == RSub(axial_stress, bending_stress_max)
    IN  IF SectionModulusNegligible(shape.section_modulus) THEN axial_stress
        ELSE IF RGt(RAbs(stress_tension), RAbs(stress_compression))
             THEN stress_tension
             ELSE stress_compression

BeamResults(b, shape, P, max_M) ==
    [b EXCEPT !.axial_force = P, !.max_moment = max_M,
              !.stress = CombinedStress(shape, RDiv(P, shape.area),
                                        RDiv(max_M, shape.section_modulus))]

\* the same with the axial force read at the first end
BeamForcesAtFirstEnd(b, shape, local_end_forces) ==
    BeamResults(b, shape, local_end_forces[0],
                StdMax(RAbs(local_end_forces[2]), RAbs(local_end_forces[5])))

BeamForces(b, shape, local_end_forces) ==
    BeamResults(b, shape, local_end_forces[3],
                StdMax(RAbs(local_end_forces[2]), RAbs(local_end_forces[5])))

\* internal forces and combined stress of one beam from the displacement u
PostProcessBeam(S, b, u, g) == BeamForces(b, ShapeOf(S, b, g), LocalEndForces(S, b, u, g))

\* the running max_stress / min_stress after the first k beams
RECURSIVE StressRange(_, _, _)
StressRange(bs, k, acc) ==
    IF k > Len(bs) THEN acc
    ELSE StressRange(bs, k + 1, Table([max |-> StdMax(acc.max, bs[k].stress),
                                       min |-> StdMin(acc.min, bs[k].stress)]))

\* sum of the entries d, d+3, d+6, ... of v over the nodes that satisfy keep
RECURSIVE NodeSum(_, _, _, _, _)
NodeSum(v, ns, d, i, keepFree) ==
    IF i >= Len(ns) THEN Zero
    ELSE RAdd(IF keepFree \/ ns[i + 1].constraint_type # "Free" THEN v[i * 3 + d] ELSE Zero,
              NodeSum(v, ns, d, i + 1, keepFree))

\* the size check at the head of the call
Resized(S, g) ==
    IF Len(S.nodes) * 3 # S.total_dof
    THEN [S EXCEPT !.total_dof = Len(S.nodes) * 3,
                   !.displacement = conservativeResize(S.displacement, Len(S.nodes) * 3, g),
                   !.forces = conservativeResize(S.forces, Len(S.nodes) * 3, g)]
    ELSE S

\* step 1, every beam
WithStiffness(S, g) ==
    [S EXCEPT !.beams = Table([i \in 1..Len(S.beams) |->
                  [S.beams[i] EXCEPT !.k_matrix = BeamStiffness(S, S.beams[i], g)]])]

\* step 2
Assembled(S) ==
    [S EXCEPT !.global_k_matrix = assemble_global_stiffness(S.beams, Len(S.nodes))]

\* forces(d); a read past the vector yields g
ForceAt(S, d, g) == IF d \in DOMAIN S.forces THEN S.forces[d] ELSE g

\* the post-processing written back: beams, max_stress, min_stress
WithStress(S, u, beams2) ==
    LET range == StressRange(beams2, 1, [max |-> R(-StressSentinel),
                                         min |-> R(StressSentinel)])
    IN  [S EXCEPT !.displacement = u, !.beams = beams2,
                  !.max_stress = range.max, !.min_stress = range.min]

\* the local vector reactions = K u - F and the printed balance sums
Balance(S, Ffull, reactions, info) ==
    [info EXCEPT !.reactions = reactions,
                 !.balance = Table([d \in 0..2 |->
                                 RAdd(NodeSum(Ffull, S.nodes, d, 0, TRUE),
                                      NodeSum(reactions, S.nodes, d, 0, FALSE))])]

Reactions(S, u, Ffull, info) ==
    Balance(S, Ffull, VecSub(MatVec(S.global_k_matrix, u), Ffull), info)

\* everything after the solve, given the full displacement u
PostProcess(S, u, info, g) ==
    [sys    |-> WithStress(S, u, Table([i \in 1..Len(S.beams) |->
                                  PostProcessBeam(S, S.beams[i], u, g)])),
     status |-> 0,
     call   |-> Reactions(S, u, Table([d \in 0..(S.total_dof - 1) |-> ForceAt(S, d, g)]),
                          info)]

\* the same without the reset to zero: the other DOFs keep their old value
ScatteredOverOld(S, u_r, free) ==
    Table([d \in 0..(S.total_dof - 1) |->
        IF \E i \in 1..Len(free) : free[i] = d
        THEN u_r[(CHOOSE i \in 1..Len(free) : free[i] = d) - 1]
        ELSE IF d \in DOMAIN S.displacement THEN S.displacement[d] ELSE Zero])

\* displacement = Zero(total_dof), then the free DOFs written from u_r
Scattered(S, u_r, free) ==
    Table([d \in 0..(S.total_dof - 1) |->
        IF \E i \in 1..Len(free) : free[i] = d
        THEN u_r[(CHOOSE i \in 1..Len(free) : free[i] = d) - 1]
        ELSE Zero])

\* C_r: one row per entry of slider_nodes
ConstraintMatrix(ns, sliders, free) ==
    Table([ci \in 0..(Len(sliders) - 1) |->
        generate_constraint_row(ns, sliders[ci + 1], free)])

\* the solve outcome: -2 on a solution of the wrong size, else post-processing
Solved(S, free, nc, C_r, K_r, F_r, sol, g) ==
    IF nc # 0 /\ sol.size # sol.augmented_size
    THEN [sys |-> S, status |-> -2,
          call |-> [stage |-> "solve", size |-> sol.size,
                    augmented_size |-> sol.augmented_size]]
    ELSE PostProcess(S, Scattered(S, sol.u_r, free),
                     [stage |-> "post", K_r |-> K_r, F_r |-> F_r, u_r |-> sol.u_r,
                      lambda |-> sol.lambda, rank |-> sol.rank,
                      augmented_size |-> sol.augmented_size, nf |-> Len(free),
                      free |-> free, C_r |-> C_r,
                      reactions |-> <<>>, balance |-> <<>>], g)

\* steps 5-6 on the reduced system
SolveFree(S, free, sliders, K_r, F_r, g) ==
    Solved(S, free, Len(sliders), ConstraintMatrix(S.nodes, sliders, free), K_r, F_r,
           SolveReduced(K_r, F_r, ConstraintMatrix(S.nodes, sliders, free),
                        Len(free), Len(sliders)),
           g)

\* step 4: K_r and F_r over the free DOFs
Reduce(S, free, g) ==
    SolveFree(S, free, slider_nodes(S.nodes),
              Table([i \in 0..(Len(free) - 1) |-> [j \in 0..(Len(free) - 1) |->
                  S.global_k_matrix[free[i + 1]][free[j + 1]]]]),
              Table([i \in 0..(Len(free) - 1) |-> ForceAt(S, free[i + 1], g)]),
              g)

\* the same with the empty free-DOF list reported as success
FromAssembledNoStatus(S, free, g) ==
    IF Len(free) = 0
    THEN [sys |-> S, status |-> 0, call |-> [stage |-> "reduce"]]
    ELSE Reduce(S, free, g)

\* step 3: no free DOF ends the call with -1
FromAssembled(S, free, g) ==
    IF Len(free) = 0
    THEN [sys |-> S, status |-> -1, call |-> [stage |-> "reduce"]]
    ELSE Reduce(S, free, g)

\* The whole call.  S holds the fields of the FEMSystem, g is what reads of
\* uninitialised or out-of-range memory yield.  The result is the new fields,
\* the returned status and, under call, values the call computed locally.
solve_system(S, g) ==
    FromAssembled(Assembled(WithStiffness(Resized(S, g), g)), free_dof_indices(S.nodes), g)

\* ------------------------------------------------------------------------
\* The program state
\* ------------------------------------------------------------------------

VARIABLES
    nodes,               \* FEMSystem::nodes
    beams,               \* FEMSystem::beams
    materials_list,      \* FEMSystem::materials_list
    beam_profiles_list,  \* FEMSystem::beam_profiles_list
    global_k_matrix,     \* FEMSystem::global_k_matrix
    forces,              \* FEMSystem::forces
    displacement,        \* FEMSystem::displacement
    reactions,           \* FEMSystem::reactions
    total_dof,           \* FEMSystem::total_dof
    max_stress,          \* FEMSystem::max_stress
    min_stress,          \* FEMSystem::min_stress
    load_error,          \* GUIHandler::load_error
    crashed,             \* the process died of an out-of-range access
    status,              \* what the last solve_system call returned (1: no call yet)
    call,                \* values the last solve_system call computed locally
    pre,                 \* the solver outputs as they stood when the last call began
    solved,              \* <<the model inputs of the last call that wrote the outputs>>
    pre_forces,          \* the force vector as it stood when the last call began
    pc,                  \* where a solve_system call that runs stage by stage stands
    op,                  \* the last operation
    edits,               \* number of operations so far
    recording,           \* visualizationEditor: static bool recording
    recorded_frames,     \* visualizationEditor: static int recorded_frames
    auto_build_gif,      \* visualizationEditor: static bool auto_build_gif
    g_frame_queue,       \* the FrameTasks waiting for the writer, front first
    g_writer_started,    \* the writer thread has been created
    task,                \* writerThreadFunc: <<the FrameTask popped and not yet saved>>
    files,               \* the frame files on disk
    gui_pc,              \* where the GUI thread stands in visualizationEditor
    waited,              \* the milliseconds the wait loop has slept
    session,             \* number of recordings started so far
    dropped,             \* the frames the overflow rule removed
    seen_empty           \* the wait loop ended on an empty queue

\* the FEMSystem, the load popup and the bookkeeping of the operations
system_vars == <<nodes, beams, materials_list, beam_profiles_list, global_k_matrix, forces,
                 displacement, reactions, total_dof, max_stress, min_stress, load_error,
                 crashed, status, call, pre, pre_forces, pc, solved, op, edits>>

\* the frame-capture pipeline
capture_vars == <<recording, recorded_frames, auto_build_gif, g_frame_queue,
                  g_writer_started, task, files, gui_pc, waited, session, dropped,
                  seen_empty>>

vars == <<system_vars, capture_vars>>

\* the statics of the pipeline as initialised: nothing recorded, no writer
CaptureIdle ==
    /\ recording = FALSE
    /\ recorded_frames = 0
    /\ auto_build_gif = FALSE
    /\ g_frame_queue = <<>>
    /\ g_writer_started = FALSE
    /\ task = <<>>
    /\ files = {}
    /\ gui_pc = "frame"
    /\ waited = 0
    /\ session = 0
    /\ dropped = {}
    /\ seen_empty = FALSE

\* the FEMSystem as one record
Sys ==
    [nodes |-> nodes, beams |-> beams, materials_list |-> materials_list,
     beam_profiles_list |-> beam_profiles_list, global_k_matrix |-> global_k_matrix,
     forces |-> forces, displacement |-> displacement, reactions |-> reactions,
     total_dof |-> total_dof, max_stress |-> max_stress, min_stress |-> min_stress]

\* what the user entered: everything the equilibrium depends on
Inputs(S) ==
    [nodes |-> S.nodes,
     beams |-> [i \in 1..Len(S.beams) |->
                   <<S.beams[i].nodes, S.beams[i].material_idx, S.beams[i].shape_idx,
                     S.beams[i].is_truss>>],
     materials_list |-> S.materials_list,
     beam_profiles_list |-> S.beam_profiles_list,
     forces |-> S.forces]

\* what solve_system computes
Outputs(S) ==
    [displacement |-> S.displacement, global_k_matrix |-> S.global_k_matrix,
     beams |-> [i \in 1..Len(S.beams) |->
                   <<S.beams[i].axial_force, S.beams[i].max_moment, S.beams[i].stress>>],
     max_stress |-> S.max_stress, min_stress |-> S.min_stress]

\* ------------------------------------------------------------------------
\* Bounds and input sets
\* ------------------------------------------------------------------------

MaxEdits == 2

MaxNodes == 2

MaxBeams == 2

PositionSet == {<<0, 0>>, <<3, 0>>}

AngleSet == {0, 53}

ForceSet == {Zero, R(2)}

AreaSet == {R(1), R(2)}

NameSet == {"a", "b"}

\* what uninitialised or out-of-range memory may hold
GarbageSet == {Zero, R(7)}

\* FEMSystem::FEMSystem
Construct(n, s, materials, beam_profiles) ==
    [nodes |-> n, beams |-> s, materials_list |-> materials,
     beam_profiles_list |-> beam_profiles, global_k_matrix |-> <<>>,
     forces |-> ZeroVec(Len(n) * 3), displacement |-> ZeroVec(Len(n) * 3),
     reactions |-> <<>>, total_dof |-> Len(n) * 3, max_stress |-> Zero, min_stress |-> Zero]

Steel == MaterialProfile("a", R(6))

Bar == BeamProfile("a", R(1), R(1), R(1))

Rod == BeamProfile("b", R(2), Zero, Zero)

\* no call is running
Idle ==
    [stage |-> "idle", index |-> 0, written |-> FALSE, g |-> Zero, free |-> <<>>,
     info |-> [stage |-> "none"]]

\* the models the program is started with
InitialModels ==
    { [n |-> <<>>, s |-> <<>>, m |-> <<Steel>>, p |-> <<Bar>>],
      [n |-> <<Node(0, 0, "Fixed", 0), Node(3, 0, "Free", 0)>>,
       s |-> <<Beam(0, 1, 0, 0, FALSE, Zero)>>, m |-> <<Steel>>, p |-> <<Bar>>],
      [n |-> <<Node(0, 0, "FixedPin", 0), Node(3, 0, "Slider", 0)>>,
       s |-> <<Beam(0, 1, 0, 1, TRUE, Zero)>>, m |-> <<Steel>>, p |-> <<Bar, Rod>>] }

Init ==
    \E im \in InitialModels :
        LET S == Construct(im.n, im.s, im.m, im.p)
        IN  /\ nodes = S.nodes
            /\ beams = S.beams
            /\ materials_list = S.materials_list
            /\ beam_profiles_list = S.beam_profiles_list
            /\ global_k_matrix = S.global_k_matrix
            /\ forces = S.forces
            /\ displacement = S.displacement
            /\ reactions = S.reactions
            /\ total_dof = S.total_dof
            /\ max_stress = S.max_stress
            /\ min_stress = S.min_stress
            /\ load_error = FALSE
            /\ crashed = FALSE
            /\ status = 1
            /\ call = [stage |-> "none"]
            /\ pre = Outputs(S)
            /\ pre_forces = S.forces
            /\ pc = Idle
            /\ solved = <<>>
            /\ op = "init"
            /\ edits = 0
            /\ CaptureIdle

\* ------------------------------------------------------------------------
\* Editor operations (GUIHandler): each is the whole handler, the edit and
\* the solve_system call that ends it
\* ------------------------------------------------------------------------

SetSys(S) ==
    /\ nodes' = S.nodes
    /\ beams' = S.beams
    /\ materials_list' = S.materials_list
    /\ beam_profiles_list' = S.beam_profiles_list
    /\ global_k_matrix' = S.global_k_matrix
    /\ forces' = S.forces
    /\ displacement' = S.displacement
    /\ reactions' = S.reactions
    /\ total_dof' = S.total_dof
    /\ max_stress' = S.max_stress
    /\ min_stress' = S.min_stress

\* the values a call on S may read from memory it does not own
GarbageFor(S) ==
    IF \/ IndexFault(S)
       \/ Len(S.nodes) * 3 > Size(S.displacement)
       \/ Len(S.nodes) * 3 > Size(S.forces)
    THEN GarbageSet ELSE {Zero}

\* fem_system.solve_system() on the edited system S, as the last step of
\* the operation name
SolveAfter(S, name) ==
    /\ ~crashed
    /\ edits < MaxEdits
    /\ edits' = edits + 1
    /\ op' = name
    /\ load_error' = load_error
    /\ pre' = Outputs(S)
    /\ pre_forces' = S.forces
    /\ pc' = pc
    /\ UNCHANGED capture_vars
    /\ \/ \E g \in GarbageFor(S) :
            \E r \in {solve_system(S, g)} :
                /\ SetSys(r.sys)
                /\ status' = r.status
                /\ call' = r.call
                /\ solved' = IF r.status = 0 THEN <<Inputs(r.sys)>> ELSE solved
                /\ crashed' = FALSE
       \/ /\ IndexFault(S)
          /\ SetSys(S)
          /\ crashed' = TRUE
          /\ UNCHANGED <<status, call, solved>>

RemoveAt(seq, i) == SubSeq(seq, 1, i - 1) \o SubSeq(seq, i + 1, Len(seq))

\* processEvent (Ctrl+N) and headerBar ("New System")
NewSystem ==
    SolveAfter([Sys EXCEPT !.nodes = <<>>, !.beams = <<>>], "NewSystem")

\* nodeEditor, "Add Node"
AddNode ==
    /\ Len(nodes) < MaxNodes
    /\ \E pos \in PositionSet, ct \in ConstraintType, angle \in AngleSet :
        /\ ct # "Slider" => angle = 0
        /\ SolveAfter([Sys EXCEPT !.nodes = Append(nodes, Node(pos[1], pos[2], ct, angle))],
                      "AddNode")

\* the same without the renumbering of the remaining beams
RemoveNodeEditKeepingIndices(S, removed_index) ==
    LET Keeps(b) == b.nodes[1] # removed_index /\ b.nodes[2] # removed_index
    IN  [S EXCEPT !.beams = SelectSeq(S.beams, Keeps),
                  !.nodes = RemoveAt(S.nodes, removed_index + 1)]

\* nodeEditor, "Remove Node": the beams at the node go, later indices shift
RemoveNodeEdit(S, removed_index) ==
    LET Keeps(b) == b.nodes[1] # removed_index /\ b.nodes[2] # removed_index
        Shift(n) == IF n > removed_index THEN n - 1 ELSE n
        kept     == SelectSeq(S.beams, Keeps)
    IN  [S EXCEPT !.beams = [i \in 1..Len(kept) |->
                                [kept[i] EXCEPT !.nodes = <<Shift(kept[i].nodes[1]),
                                                            Shift(kept[i].nodes[2])>>]],
                  !.nodes = RemoveAt(S.nodes, removed_index + 1)]

RemoveNode ==
    \E i \in 0..(Len(nodes) - 1) : SolveAfter(RemoveNodeEdit(Sys, i), "RemoveNode")

\* nodeEditor, position input
EditNodePosition ==
    \E i \in 1..Len(nodes), pos \in PositionSet :
        /\ pos # nodes[i].position
        /\ SolveAfter([Sys EXCEPT !.nodes[i].position = pos], "EditNodePosition")

\* nodeEditor, constraint combo
EditNodeConstraint ==
    \E i \in 1..Len(nodes), ct \in ConstraintType :
        /\ ct # nodes[i].constraint_type
        /\ SolveAfter([Sys EXCEPT !.nodes[i].constraint_type = ct], "EditNodeConstraint")

\* nodeEditor, slider angle (shown for Slider nodes only)
EditSliderAngle ==
    \E i \in 1..Len(nodes), angle \in AngleSet :
        /\ nodes[i].constraint_type = "Slider"
        /\ angle # nodes[i].constraint_angle
        /\ SolveAfter([Sys EXCEPT !.nodes[i].constraint_angle = angle], "EditSliderAngle")

\* beamEditor: the sanity check that ends every change, then the solve
ValidateBeams(S) ==
    LET Valid(b) == BeamValid(S, b)
    IN  [S EXCEPT !.beams = SelectSeq(S.beams, Valid)]

BeamsChanged(S, name) == SolveAfter(ValidateBeams(S), name)

EndpointsValid(S, b) == NodeInRange(S, b.nodes[1]) /\ NodeInRange(S, b.nodes[2])

\* beamEditor, "Node A" / "Node B" combos
EditBeamNode ==
    \E i \in 1..Len(beams), end \in 1..2, n \in 0..(Len(nodes) - 1) :
        /\ EndpointsValid(Sys, beams[i])
        /\ n # beams[i].nodes[end]
        /\ BeamsChanged([Sys EXCEPT !.beams[i].nodes[end] = n], "EditBeamNode")

\* beamEditor, "Profile" combo: an out-of-range index is shown as entry 0
EditBeamProfile ==
    \E i \in 1..Len(beams), p \in 0..(Len(beam_profiles_list) - 1) :
        /\ EndpointsValid(Sys, beams[i])
        /\ p # (IF ShapeInRange(Sys, beams[i]) THEN beams[i].shape_idx ELSE 0)
        /\ BeamsChanged([Sys EXCEPT !.beams[i].shape_idx = p], "EditBeamProfile")

\* beamEditor, "Material" combo
EditBeamMaterial ==
    \E i \in 1..Len(beams), m \in 0..(Len(materials_list) - 1) :
        /\ EndpointsValid(Sys, beams[i])
        /\ m # (IF MaterialInRange(Sys, beams[i]) THEN beams[i].material_idx ELSE 0)
        /\ BeamsChanged([Sys EXCEPT !.beams[i].material_idx = m], "EditBeamMaterial")

\* beamEditor, "Truss" checkbox
ToggleTruss ==
    \E i \in 1..Len(beams) :
        /\ EndpointsValid(Sys, beams[i])
        /\ BeamsChanged([Sys EXCEPT !.beams[i].is_truss = ~beams[i].is_truss], "ToggleTruss")

\* beamEditor, "Remove Beam" and "Remove Invalid Beam"
RemoveBeam ==
    \E i \in 1..Len(beams) :
        BeamsChanged([Sys EXCEPT !.beams = RemoveAt(beams, i)], "RemoveBeam")

\* beamEditor, "Add Beam": the combos keep their last index (new_profile_idx,
\* new_material_idx are static), so an index may be one past a shrunken catalog
AddBeam ==
    /\ Len(beams) < MaxBeams
    /\ \E a \in 0..(Len(nodes) - 1), b \in 0..(Len(nodes) - 1),
          m \in 0..Len(materials_list), p \in 0..Len(beam_profiles_list),
          truss \in BOOLEAN, g \in GarbageSet :
        /\ a # b
        /\ beam_profiles_list # <<>>
        /\ materials_list # <<>>
        /\ BeamsChanged([Sys EXCEPT !.beams = Append(beams, Beam(a, b, m, p, truss, g))],
                        "AddBeam")

\* systemControls, Fx / Fy inputs of a Free or Slider node
SetForce ==
    \E i \in 0..(Len(nodes) - 1), d \in 0..1, f \in ForceSet :
        /\ nodes[i + 1].constraint_type \in {"Free", "Slider"}
        /\ i * 3 + d \in DOMAIN forces
        /\ f # forces[i * 3 + d]
        /\ SolveAfter([Sys EXCEPT !.forces[i * 3 + d] = f], "SetForce")

\* profileEditor, area input
EditProfileArea ==
    \E i \in 1..Len(beam_profiles_list), A \in AreaSet :
        /\ A # beam_profiles_list[i].area
        /\ SolveAfter([Sys EXCEPT !.beam_profiles_list[i].area = A], "EditProfileArea")

\* the same with the beams of the later entries removed as well
RemoveProfileEditFromEntry(S, i) ==
    LET Keeps(b) == b.shape_idx < i
    IN  [S EXCEPT !.beams = SelectSeq(S.beams, Keeps),
                  !.beam_profiles_list = RemoveAt(S.beam_profiles_list, i + 1)]

\* profileEditor, "Remove Profile": the beams of entry i go, the entry goes
RemoveProfileEdit(S, i) ==
    LET Keeps(b) == b.shape_idx # i
    IN  [S EXCEPT !.beams = SelectSeq(S.beams, Keeps),
                  !.beam_profiles_list = RemoveAt(S.beam_profiles_list, i + 1)]

RemoveProfile ==
    \E i \in 0..(Len(beam_profiles_list) - 1) :
        SolveAfter(RemoveProfileEdit(Sys, i), "RemoveProfile")

\* profileEditor, "Add Profile": the name is new and not empty
AddProfile ==
    \E name \in NameSet :
        /\ \A i \in 1..Len(beam_profiles_list) : beam_profiles_list[i].name # name
        /\ SolveAfter([Sys EXCEPT !.beam_profiles_list =
                          Append(beam_profiles_list, [Rod EXCEPT !.name = name])],
                      "AddProfile")

\* materialEditor, "Remove Material"
RemoveMaterialEdit(S, i) ==
    LET Keeps(b) == b.material_idx # i
    IN  [S EXCEPT !.beams = SelectSeq(S.beams, Keeps),
                  !.materials_list = RemoveAt(S.materials_list, i + 1)]

RemoveMaterial ==
    \E i \in 0..(Len(materials_list) - 1) :
        SolveAfter(RemoveMaterialEdit(Sys, i), "RemoveMaterial")

\* materialEditor, "Add Material"
AddMaterial ==
    \E name \in NameSet :
        /\ \A i \in 1..Len(materials_list) : materials_list[i].name # name
        /\ SolveAfter([Sys EXCEPT !.materials_list =
                          Append(materials_list, MaterialProfile(name, R(12)))],
                      "AddMaterial")

\* ------------------------------------------------------------------------
\* handleLoadPopup: reading a saved system
\* ------------------------------------------------------------------------

\* a record of the file: the beam as stored (node indices, stress, material
\* and shape index, truss flag)
FileBeam(n0, n1, mat, shp, truss) ==
    [n0 |-> n0, n1 |-> n1, stress |-> Zero, mat_idx |-> mat, shape_idx |-> shp,
     is_truss |-> truss]

\* the files the user may open
FileSet ==
    { [materials |-> <<Steel>>, profiles |-> <<Bar>>,
       nodes |-> <<Node(0, 0, "Fixed", 0), Node(3, 0, "Free", 0)>>,
       beams |-> <<FileBeam(0, 1, 0, 0, FALSE)>>,
       forces |-> [i \in 0..5 |-> IF i = 4 THEN R(2) ELSE Zero]],
      [materials |-> <<Steel>>, profiles |-> <<Bar>>,
       nodes |-> <<Node(0, 0, "Free", 0)>>,
       beams |-> <<FileBeam(0, 0, 0, 0, TRUE)>>,
       forces |-> <<>>],
      [materials |-> <<Steel>>, profiles |-> <<Bar>>,
       nodes |-> <<Node(0, 0, "Fixed", 0), Node(3, 0, "Free", 0)>>,
       beams |-> <<FileBeam(0, 2, 0, 0, TRUE)>>,
       forces |-> ZeroVec(6)] }

\* Beam(): what beams.resize leaves in an entry not yet read
DefaultBeam(g) == Beam(-1, -1, -1, -1, TRUE, g)

FileBeamIndexOk(file, fb) ==
    /\ fb.mat_idx >= 0 /\ fb.mat_idx < Len(file.materials)
    /\ fb.shape_idx >= 0 /\ fb.shape_idx < Len(file.profiles)

FileBeamNodesOk(file, fb) ==
    /\ fb.n0 >= 0 /\ fb.n0 < Len(file.nodes)
    /\ fb.n1 >= 0 /\ fb.n1 < Len(file.nodes)

FileBeamOk(file, fb) == FileBeamIndexOk(file, fb) /\ FileBeamNodesOk(file, fb)

\* beam i as the read loop leaves it: read in full before the first rejected
\* beam, in part at the rejected beam, untouched after it
LoadedBeam(file, i, bad, g) ==
    LET fb == file.beams[i]
        d  == DefaultBeam(g)
    IN  IF i > bad THEN d
        ELSE [d EXCEPT !.nodes = <<fb.n0, fb.n1>>,
                       !.stress = fb.stress,
                       !.is_truss = fb.is_truss,
                       !.material_idx = IF FileBeamIndexOk(file, fb) THEN fb.mat_idx ELSE -1,
                       !.shape_idx = IF FileBeamIndexOk(file, fb) THEN fb.shape_idx ELSE -1]

\* the index of the first beam the loader rejects, or 0
FirstBadBeam(file) ==
    IF \A i \in 1..Len(file.beams) : FileBeamOk(file, file.beams[i]) THEN 0
    ELSE CHOOSE i \in 1..Len(file.beams) :
            /\ ~FileBeamOk(file, file.beams[i])
            /\ \A j \in 1..(i - 1) : FileBeamOk(file, file.beams[j])

\* the system after the lists are cleared and the file is read up to the end
\* or up to the rejected beam
LoadEdit(S, file, g) ==
    LET bad == FirstBadBeam(file)
        nb  == Len(file.beams)
        expected_forces == Len(file.nodes) * 3
    IN  [S EXCEPT !.materials_list = file.materials,
                  !.beam_profiles_list = file.profiles,
                  !.nodes = file.nodes,
                  !.beams = [i \in 1..nb |->
                                LoadedBeam(file, i, IF bad = 0 THEN nb ELSE bad, g)],
                  !.forces = IF bad # 0 THEN <<>>
                             ELSE IF Size(file.forces) = expected_forces THEN file.forces
                             ELSE ZeroVec(expected_forces),
                  !.total_dof = IF bad # 0 THEN S.total_dof ELSE expected_forces,
                  !.displacement = IF bad # 0 THEN S.displacement
                                   ELSE ZeroVec(expected_forces)]

\* the file is accepted: the system is replaced and solved
LoadFile ==
    \E file \in FileSet, g \in GarbageSet :
        /\ FirstBadBeam(file) = 0
        /\ SolveAfter(LoadEdit(Sys, file, g), "LoadFile")

\* the file is rejected at a beam: load_error is raised and the handler
\* returns without a solve
LoadFileAbort ==
    \E file \in FileSet, g \in GarbageSet :
        /\ FirstBadBeam(file) # 0
        /\ ~crashed
        /\ edits < MaxEdits
        /\ SetSys(LoadEdit(Sys, file, g))
        /\ load_error' = TRUE
        /\ edits' = edits + 1
        /\ op' = "LoadFileAbort"
        /\ UNCHANGED <<crashed, status, call, pre, pre_forces, pc, solved>>
        /\ UNCHANGED capture_vars

Next ==
    \/ NewSystem
    \/ AddNode
    \/ RemoveNode
    \/ EditNodePosition
    \/ EditNodeConstraint
    \/ EditSliderAngle
    \/ EditBeamNode
    \/ EditBeamProfile
    \/ EditBeamMaterial
    \/ ToggleTruss
    \/ RemoveBeam
    \/ AddBeam
    \/ SetForce
    \/ EditProfileArea
    \/ RemoveProfile
    \/ AddProfile
    \/ RemoveMaterial
    \/ AddMaterial
    \/ LoadFile
    \/ LoadFileAbort

Spec == Init /\ [][Next]_vars

\* ------------------------------------------------------------------------
\* solve_system on constructed systems: one or two elements in general
\* position, for what the call computes as a function of its inputs
\* ------------------------------------------------------------------------

Strut == BeamProfile("c", R(2), R(3), R(1))

\* where the second node of an element lies (lengths 3, 4 and 5)
EndSet == {<<3, 0>>, <<0, 4>>, <<3, 4>>}

YoungSet == {6, 12}

\* (Fx, Fy) of the loaded node
ForceVecSet == {<<0, 0>>, <<3, 0>>, <<0, 4>>, <<3, 4>>, <<-3, -4>>, <<4, -3>>}

\* the force vector with (Fx, Fy) at node k
ForcesAt(num_nodes, k, f) ==
    [d \in 0..(num_nodes * 3 - 1) |->
        IF d = k * 3 THEN R(f[1]) ELSE IF d = k * 3 + 1 THEN R(f[2]) ELSE Zero]

\* one element between a Fixed and a Free node, the Free node loaded
OneElementSystems ==
    { [Construct(<<Node(0, 0, IF free = 0 THEN "Free" ELSE "Fixed", 0),
                   Node(end[1], end[2], IF free = 1 THEN "Free" ELSE "Fixed", 0)>>,
                 <<Beam(ab[1], ab[2], 0, shp, truss, Zero)>>,
                 <<MaterialProfile("a", R(E))>>, <<Bar, Rod, Strut>>)
          EXCEPT !.forces = ForcesAt(2, free, f)] :
        free \in 0..1, end \in EndSet, ab \in {<<0, 1>>, <<1, 0>>}, shp \in 0..2,
        truss \in BOOLEAN, E \in YoungSet, f \in ForceVecSet }

\* two elements that share the loaded middle node
TwoElementSystems ==
    { [Construct(<<Node(0, 0, "Fixed", 0), Node(3, 0, "Free", 0), Node(3, 4, ct, 0)>>,
                 <<Beam(e[1][1], e[1][2], 0, shp[1], truss[1], Zero),
                   Beam(e[2][1], e[2][2], 0, shp[2], truss[2], Zero)>>,
                 <<Steel>>, <<Bar, Rod>>)
          EXCEPT !.forces = ForcesAt(3, 1, f)] :
        ct \in {"FixedPin", "Fixed"},
        e \in {<<<<0, 1>>, <<1, 2>>>>, <<<<1, 2>>, <<0, 1>>>>, <<<<0, 1>>, <<2, 1>>>>},
        shp \in {<<0, 0>>, <<0, 1>>}, truss \in {<<FALSE, FALSE>>, <<FALSE, TRUE>>},
        f \in {<<3, 0>>, <<0, 4>>} }

\* the state after FEMSystem is constructed as one of Systems
ConstructedFrom(Systems) ==
    \E S \in Systems :
        /\ nodes = S.nodes
        /\ beams = S.beams
        /\ materials_list = S.materials_list
        /\ beam_profiles_list = S.beam_profiles_list
        /\ global_k_matrix = S.global_k_matrix
        /\ forces = S.forces
        /\ displacement = S.displacement
        /\ reactions = S.reactions
        /\ total_dof = S.total_dof
        /\ max_stress = S.max_stress
        /\ min_stress = S.min_stress
        /\ load_error = FALSE
        /\ crashed = FALSE
        /\ status = 1
        /\ call = [stage |-> "none"]
        /\ pre = Outputs(S)
        /\ pre_forces = S.forces
        /\ pc = Idle
        /\ solved = <<>>
        /\ op = "init"
        /\ edits = 0
        /\ CaptureIdle

ConstructedInit == ConstructedFrom(OneElementSystems \cup TwoElementSystems)

\* fem_system.solve_system() on the system as it stands
Solve == SolveAfter(Sys, "Solve")

SolveSpec == ConstructedInit /\ [][Solve]_vars

\* ------------------------------------------------------------------------
\* One solve_system call stage by stage: the statements of the function in
\* program order, each stage one step
\* ------------------------------------------------------------------------

\* the systems as constructed at start-up
StartSystems == {Construct(im.n, im.s, im.m, im.p) : im \in InitialModels}

StagedInit == ConstructedFrom(StartSystems \cup TwoElementSystems)

\* the same with the loop over the beams left after its first pass
StageAfterFirstBeam(index, num_beams) ==
    IF index = 0 /\ num_beams > 0 THEN "formulate" ELSE "assemble"

\* what runs next when index of num_beams beams have their stiffness: the
\* loop over the beams goes on, or the assembly starts
StageAfter(index, num_beams) ==
    IF index < num_beams THEN "formulate" ELSE "assemble"

\* a step inside the call: the system fields change, the bookkeeping of the
\* operations does not
InCall(S) ==
    /\ SetSys(S)
    /\ UNCHANGED <<load_error, crashed, status, call, pre, pre_forces, solved, op, edits>>
    /\ UNCHANGED capture_vars

\* the call returns status with the fields as they stand
Return(S, code, info) ==
    /\ SetSys(S)
    /\ status' = code
    /\ call' = info
    /\ solved' = IF code = 0 THEN <<Inputs(S)>> ELSE solved
    /\ op' = "Solve"
    /\ pc' = Idle
    /\ UNCHANGED <<load_error, crashed, pre, pre_forces, edits>>
    /\ UNCHANGED capture_vars

\* entry: the size check and the resize
BeginSolve ==
    /\ pc.stage = "idle"
    /\ ~crashed
    /\ edits < MaxEdits
    /\ \E g \in GarbageFor(Sys) :
           /\ SetSys(Resized(Sys, g))
           /\ pc' = [Idle EXCEPT !.stage = StageAfter(0, Len(beams)), !.g = g]
    /\ pre' = Outputs(Sys)
    /\ pre_forces' = forces
    /\ edits' = edits + 1
    /\ UNCHANGED <<load_error, crashed, status, call, solved, op>>
    /\ UNCHANGED capture_vars

\* step 1, one pass of the loop: compute_stiffness of the next beam
Formulate ==
    /\ pc.stage = "formulate"
    /\ InCall([Sys EXCEPT !.beams[pc.index + 1].k_matrix =
                              BeamStiffness(Sys, beams[pc.index + 1], pc.g)])
    /\ pc' = [pc EXCEPT !.index = pc.index + 1,
                        !.stage = StageAfter(pc.index + 1, Len(beams))]

\* step 2: assemble_global_stiffness()
Assemble ==
    /\ pc.stage = "assemble"
    /\ InCall(Assembled(Sys))
    /\ pc' = [pc EXCEPT !.stage = "reduce"]

\* step 3: the free DOF list; the call ends with -1 when it is empty
Classify ==
    /\ pc.stage = "reduce"
    /\ \E free \in {free_dof_indices(nodes)} :
           IF Len(free) = 0
           THEN Return(Sys, -1, [stage |-> "reduce"])
           ELSE /\ InCall(Sys)
                /\ pc' = [pc EXCEPT !.stage = "solve", !.free = free]

\* steps 4-6: the reduced system is built and solved and the displacement
\* vector is written; the call ends with -2 on a solution of the wrong size
SolveStage ==
    /\ pc.stage = "solve"
    /\ \E r \in {Reduce(Sys, pc.free, pc.g)} :
           IF r.status # 0
           THEN Return(Sys, r.status, r.call)
           ELSE /\ InCall([Sys EXCEPT !.displacement = r.sys.displacement])
                /\ pc' = [pc EXCEPT !.stage = "post", !.written = TRUE, !.info = r.call]

\* the rest of the call: reactions, beam forces, stress, min/max, return 0
PostProcessStage ==
    /\ pc.stage = "post"
    /\ \E r \in {PostProcess(Sys, displacement, pc.info, pc.g)} :
           Return(r.sys, r.status, r.call)

StagedNext ==
    \/ BeginSolve
    \/ Formulate
    \/ Assemble
    \/ Classify
    \/ SolveStage
    \/ PostProcessStage

StagedSpec == StagedInit /\ [][StagedNext]_vars

\* the removal handlers of the editors on the two-element systems
TwoElementInit == ConstructedFrom(TwoElementSystems)

RemovalNext ==
    \/ RemoveNode
    \/ RemoveProfile
    \/ RemoveMaterial

RemovalSpec == TwoElementInit /\ [][RemovalNext]_vars

\* ------------------------------------------------------------------------
\* The frame-capture pipeline: the recording controls of visualizationEditor
\* on the GUI thread and writerThreadFunc on the background thread. A frame
\* is <<recording, index>>; its file name holds the index only. The steps of
\* a thread end where it releases g_frame_mutex or blocks.
\* ------------------------------------------------------------------------

MaxFrames == 3

MaxRecordings == 2

\* the queue length above which the oldest frame is dropped
QueueLimit == 1

max_wait_ms == 5000

sleep_ms == 50

\* "Start Recording"
StartRecording ==
    /\ gui_pc = "frame"
    /\ ~recording
    /\ session < MaxRecordings
    /\ recorded_frames' = 0
    /\ recording' = TRUE
    /\ session' = session + 1
    /\ UNCHANGED <<auto_build_gif, g_frame_queue, g_writer_started, task, files, gui_pc,
                   waited, dropped, seen_empty>>
    /\ UNCHANGED system_vars

\* the checkbox "Auto-build GIF"
ToggleAutoBuild ==
    /\ gui_pc = "frame"
    /\ auto_build_gif' = ~auto_build_gif
    /\ UNCHANGED <<recording, recorded_frames, g_frame_queue, g_writer_started, task,
                   files, gui_pc, waited, session, dropped, seen_empty>>
    /\ UNCHANGED system_vars

\* one pass of the capture loop: the writer is started if it was not, the
\* frame is enqueued under the mutex, the oldest one dropped on overflow
CaptureFrame ==
    /\ gui_pc = "frame"
    /\ recording
    /\ recorded_frames < MaxFrames
    /\ g_writer_started' = TRUE
    /\ IF Len(g_frame_queue) > QueueLimit
       THEN /\ g_frame_queue' = Append(Tail(g_frame_queue), <<session, recorded_frames>>)
            /\ dropped' = dropped \cup {Head(g_frame_queue)}
       ELSE /\ g_frame_queue' = Append(g_frame_queue, <<session, recorded_frames>>)
            /\ dropped' = dropped
    /\ recorded_frames' = recorded_frames + 1
    /\ UNCHANGED <<recording, auto_build_gif, task, files, gui_pc, waited, session,
                   seen_empty>>
    /\ UNCHANGED system_vars

\* "Stop Recording", the end of the recording length, or a failed capture
StopRecording ==
    /\ gui_pc = "frame"
    /\ recording
    /\ recording' = FALSE
    /\ UNCHANGED <<recorded_frames, auto_build_gif, g_frame_queue, g_writer_started, task,
                   files, gui_pc, waited, session, dropped, seen_empty>>
    /\ UNCHANGED system_vars

\* the automatic build is entered: the wait for the queue begins
BeginBuild ==
    /\ gui_pc = "frame"
    /\ ~recording /\ recorded_frames > 0 /\ auto_build_gif
    /\ gui_pc' = "wait"
    /\ waited' = 0
    /\ seen_empty' = FALSE
    /\ UNCHANGED <<recording, recorded_frames, auto_build_gif, g_frame_queue,
                   g_writer_started, task, files, session, dropped>>
    /\ UNCHANGED system_vars

\* one pass of the wait loop: the queue is looked at under the mutex; the
\* loop ends when it is empty, and otherwise sleeps until max_wait_ms
WaitForQueue ==
    /\ gui_pc = "wait"
    /\ IF g_frame_queue = <<>>
       THEN /\ seen_empty' = TRUE
            /\ gui_pc' = "build"
            /\ waited' = waited
       ELSE /\ seen_empty' = FALSE
            /\ waited' = waited + sleep_ms
            /\ gui_pc' = IF waited + sleep_ms < max_wait_ms THEN "wait" ELSE "build"
    /\ UNCHANGED <<recording, recorded_frames, auto_build_gif, g_frame_queue,
                   g_writer_started, task, files, session, dropped>>
    /\ UNCHANGED system_vars

\* convert runs on the frame files on disk; when it succeeded and "Delete
\* frames after GIF created" is set the files are removed
BuildGif ==
    /\ gui_pc = "build"
    /\ \E deleted \in BOOLEAN :
           /\ files' = IF deleted THEN {} ELSE files
           /\ recorded_frames' = IF deleted THEN 0 ELSE recorded_frames
    /\ auto_build_gif' = FALSE
    /\ gui_pc' = "frame"
    /\ UNCHANGED <<recording, g_frame_queue, g_writer_started, task, waited, session,
                   dropped, seen_empty>>
    /\ UNCHANGED system_vars

\* writerThreadFunc, under the mutex: the front task is moved out of the queue
WriterTake ==
    /\ g_writer_started
    /\ task = <<>>
    /\ g_frame_queue # <<>>
    /\ task' = <<Head(g_frame_queue)>>
    /\ g_frame_queue' = Tail(g_frame_queue)
    /\ UNCHANGED <<recording, recorded_frames, auto_build_gif, g_writer_started, files,
                   gui_pc, waited, session, dropped, seen_empty>>
    /\ UNCHANGED system_vars

\* writerThreadFunc, outside the mutex: saveToFile writes the file of that
\* index, or fails and leaves the disk as it is
WriterSave ==
    /\ task # <<>>
    /\ \E saved \in BOOLEAN :
           files' = IF saved
                    THEN {f \in files : f[2] # task[1][2]} \cup {task[1]}
                    ELSE files
    /\ task' = <<>>
    /\ UNCHANGED <<recording, recorded_frames, auto_build_gif, g_frame_queue,
                   g_writer_started, gui_pc, waited, session, dropped, seen_empty>>
    /\ UNCHANGED system_vars

CaptureNext ==
    \/ StartRecording
    \/ ToggleAutoBuild
    \/ CaptureFrame
    \/ StopRecording
    \/ BeginBuild
    \/ WaitForQueue
    \/ BuildGif
    \/ WriterTake
    \/ WriterSave

CaptureSpec == ConstructedFrom(StartSystems) /\ [][CaptureNext]_vars

\* ------------------------------------------------------------------------
\* Properties
\* ------------------------------------------------------------------------

\* the last operation ended with a solve_system call that returned
SolveReturned == op \notin {"init", "LoadFileAbort"} /\ ~crashed

AllFixed ==
    /\ Len(nodes) > 0
    /\ \A i \in 1..Len(nodes) : nodes[i].constraint_type = "Fixed"

AllZero(v) == \A i \in DOMAIN v : v[i] = Zero

\* C1: with every node Fixed the call returns -1 and leaves a displacement
\* that is all zero, whatever edits and solves came before
C1_AllFixedLeavesZeroDisplacement ==
    (SolveReturned /\ AllFixed) =>
        /\ status = -1
        /\ AllZero(displacement)

\* C2: at every solve_system call every beam joins two distinct existing
\* nodes and refers to existing catalog entries (the call changes none of
\* these indices, so the state after the operation shows what the call got)
C2_BeamsValidAtEverySolve ==
    (op \notin {"init", "LoadFileAbort"}) =>
        \A i \in 1..Len(beams) : BeamValid(Sys, beams[i])

\* row j of K_r u_r + C^T lambda - F_r for the values the call computed
ResidualAt(j) ==
    LET sliders == slider_nodes(nodes)
        free    == free_dof_indices(nodes)
        row(ci) == generate_constraint_row(nodes, sliders[ci + 1], free)
        Ct      == [ci \in 0..(Len(sliders) - 1) |-> RMul(row(ci)[j], call.lambda[ci])]
    IN  RSub(RAdd(Dot(call.K_r[j], call.u_r), SumFrom(Ct, 0)), call.F_r[j])

\* C3: status 0 is returned only when the solved matrix was not singular,
\* or at least the returned vector solves the reduced equations
C3_SingularSurfacesFailure ==
    (SolveReturned /\ status = 0) =>
        \/ call.rank = call.augmented_size
        \/ \A j \in 0..(call.nf - 1) : ResidualAt(j) = Zero

Coincident(b) ==
    /\ EndpointsValid(Sys, b)
    /\ b.nodes[1] # b.nodes[2]
    /\ NodePosition(Sys, b.nodes[1]) = NodePosition(Sys, b.nodes[2])

\* C4: a beam between two coincident nodes adds exactly zero stiffness and
\* no quantity computed for it comes from a division by zero
C4_CoincidentNodesNoDivisionByZero ==
    SolveReturned =>
        \A i \in 1..Len(beams) :
            Coincident(beams[i]) =>
                /\ beams[i].k_matrix = ZeroMat(6, 6)
                /\ status = 0 => /\ ~IsNaN(beams[i].axial_force)
                                 /\ ~IsNaN(beams[i].max_moment)
                                 /\ ~IsNaN(beams[i].stress)

\* C5: after every operation on a model that has nodes to show, the outputs
\* the UI reads are those of a solve of the model as it stands
C5_OutputsAreOfCurrentModel ==
    (op # "init" /\ ~crashed /\ Len(nodes) > 0) => solved = <<Inputs(Sys)>>

BeamOutputs(b) == <<b.axial_force, b.max_moment, b.stress>>

\* C6: the status is 0, -1 or -2; -1 exactly when there is no free DOF, -2
\* only on a solution of the wrong size, and 0 only with the displacement,
\* the beam results and the stress range rewritten for the model as it stands
C6_StatusContract ==
    SolveReturned =>
        /\ status \in {0, -1, -2}
        /\ (status = -1) <=> (free_dof_indices(nodes) = <<>>)
        /\ (status = -2) => call.size # call.augmented_size
        /\ (status = 0) =>
              /\ call.stage = "post"
              /\ Size(call.u_r) + Size(call.lambda) = call.augmented_size
              /\ solved = <<Inputs(Sys)>>
              /\ Size(displacement) = 3 * Len(nodes)
              /\ \A i \in 1..call.nf :
                     displacement[free_dof_indices(nodes)[i]] = call.u_r[i - 1]
              /\ \E g \in GarbageSet : \A i \in 1..Len(beams) :
                     BeamOutputs(beams[i]) =
                         BeamOutputs(PostProcessBeam(Sys, beams[i], displacement, g))
              /\ [max |-> max_stress, min |-> min_stress] =
                     StressRange(beams, 1, [max |-> R(-StressSentinel),
                                            min |-> R(StressSentinel)])

\* C6 witness: a call returned 0 and replaced the outputs of a loaded beam
C6_Witness ==
    /\ SolveReturned /\ status = 0
    /\ Len(beams) > 0 /\ ~IsNaN(beams[1].stress) /\ beams[1].stress # Zero
    /\ ~AllZero(displacement)
    /\ Outputs(Sys) # pre

\* C7: a call that returns a negative status leaves every output as it was
\* when the call began
C7_FailureLeavesOutputsUntouched ==
    (SolveReturned /\ status < 0) => Outputs(Sys) = pre

\* C8: after a call that returned 0 the displacement has 3N entries and the
\* eliminated DOFs are zero: all three of a Fixed node, both translations of
\* a FixedPin node
C8_EliminatedDofsZero ==
    (SolveReturned /\ status = 0) =>
        /\ Size(displacement) = 3 * Len(nodes)
        /\ \A i \in 0..(Len(nodes) - 1) :
               /\ nodes[i + 1].constraint_type = "Fixed" =>
                      \A d \in 0..2 : displacement[i * 3 + d] = Zero
               /\ nodes[i + 1].constraint_type = "FixedPin" =>
                      \A d \in 0..1 : displacement[i * 3 + d] = Zero

\* C8 witness: a node that an earlier solve had displaced was made a support
\* and the call returned 0
C8_Witness ==
    /\ SolveReturned /\ status = 0
    /\ op = "EditNodeConstraint"
    /\ \E i \in 0..(Len(nodes) - 1), d \in 0..1 :
           /\ nodes[i + 1].constraint_type \in {"Fixed", "FixedPin"}
           /\ i * 3 + d \in DOMAIN pre.displacement
           /\ pre.displacement[i * 3 + d] # Zero

\* the displacement of node i along the normal of its track
NormalComponent(i) ==
    RAdd(RMul(CosDeg(nodes[i + 1].constraint_angle + 90), displacement[i * 3]),
         RMul(SinDeg(nodes[i + 1].constraint_angle + 90), displacement[i * 3 + 1]))

\* C9: after a call that returned 0 no Slider node has moved along the
\* normal of its track
C9_SliderNormalDisplacementZero ==
    (SolveReturned /\ status = 0) =>
        \A i \in 0..(Len(nodes) - 1) :
            nodes[i + 1].constraint_type = "Slider" => NormalComponent(i) = Zero

\* C9 witness: a loaded Slider node on an inclined track has moved
C9_Witness ==
    /\ SolveReturned /\ status = 0
    /\ \E i \in 0..(Len(nodes) - 1) :
           /\ nodes[i + 1].constraint_type = "Slider"
           /\ nodes[i + 1].constraint_angle = 53
           /\ forces[i * 3] # Zero
           /\ displacement[i * 3] # Zero /\ displacement[i * 3 + 1] # Zero

\* a model the solver is meant for: every beam valid and of non-zero length,
\* and supports that leave the solved matrix non-singular
ValidModel ==
    /\ \A i \in 1..Len(beams) : BeamValid(Sys, beams[i]) /\ ~Coincident(beams[i])
    /\ call.rank = call.augmented_size

\* C10: on a valid model that solved with status 0 the printed balance is
\* zero in x, in y and in the moment
C10_EquilibriumBalances ==
    (SolveReturned /\ status = 0 /\ ValidModel) =>
        \A d \in 0..2 : call.balance[d] = Zero

\* the result r of one more call gives what the last call gave
SameAgain(r) ==
    /\ r.status = status
    /\ Outputs(r.sys) = Outputs(Sys)
    /\ status = 0 => r.call.reactions = call.reactions

FreeNode == CHOOSE i \in 0..1 : nodes[i + 1].constraint_type = "Free"

\* (dx, dy) from the Fixed node to the Free node, and the distance
MemberAxis ==
    <<nodes[FreeNode + 1].position[1] - nodes[2 - FreeNode].position[1],
      nodes[FreeNode + 1].position[2] - nodes[2 - FreeNode].position[2]>>

MemberLength == Sqrt(MemberAxis[1] * MemberAxis[1] + MemberAxis[2] * MemberAxis[2])

\* the component of the vector (v[3k], v[3k+1]) of the Free node along the
\* member axis, away from the support
Axial(v) ==
    RDiv(RAdd(RMul(v[FreeNode * 3], R(MemberAxis[1])),
              RMul(v[FreeNode * 3 + 1], R(MemberAxis[2]))),
         R(MemberLength))

\* one truss member between a Fixed and a Free node, loaded at the Free
\* node by a force along the member axis only
AxialMember ==
    /\ Len(nodes) = 2 /\ Len(beams) = 1
    /\ {nodes[1].constraint_type, nodes[2].constraint_type} = {"Fixed", "Free"}
    /\ beams[1].is_truss
    /\ BeamValid(Sys, beams[1]) /\ ~Coincident(beams[1])
    /\ Size(forces) = 6
    /\ \A d \in 0..5 : d \notin {FreeNode * 3, FreeNode * 3 + 1} => forces[d] = Zero
    /\ RSub(RMul(forces[FreeNode * 3], R(MemberAxis[2])),
            RMul(forces[FreeNode * 3 + 1], R(MemberAxis[1]))) = Zero

\* C12: for one truss member between a Fixed and a Free node with a force F
\* along its axis at the Free node, the call returns 0, the Free node moves
\* F L / (E A) along the axis and the member's stress is F / A
C12_AxialMemberGoldenValue ==
    (SolveReturned /\ AxialMember) =>
        /\ status = 0
        /\ Axial(displacement) =
               RDiv(RMul(Axial(forces), R(MemberLength)),
                    RMul(MaterialOf(Sys, beams[1], Zero).youngs_modulus,
                         ShapeOf(Sys, beams[1], Zero).area))
        /\ beams[1].stress = RDiv(Axial(forces), ShapeOf(Sys, beams[1], Zero).area)

\* C12 witness: an inclined member under a non-zero axial force was solved
C12_Witness ==
    /\ SolveReturned /\ AxialMember
    /\ MemberAxis[1] # 0 /\ MemberAxis[2] # 0
    /\ Axial(forces) # Zero
    /\ beams[1].stress # Zero /\ Axial(displacement) # Zero

\* entry (r, c) of the stiffness of a bar that carries axial force only:
\* (E A / L) e e^T on the translations of each end, its negative between
\* the ends, zero in every row and column of a rotation
AxialEntry(E, A, dx, dy, r, c) ==
    IF r % 3 = 2 \/ c % 3 = 2 \/ (dx = 0 /\ dy = 0) THEN Zero
    ELSE RMul(IF r \div 3 = c \div 3 THEN One ELSE R(-1),
              RDiv(RMul(RMul(E, A), R(<<dx, dy>>[(r % 3) + 1] * <<dx, dy>>[(c % 3) + 1])),
                   R(Sqrt(dx * dx + dy * dy) * (dx * dx + dy * dy))))

\* the stiffness matrix k of a truss-flagged beam is that of the same element
\* without the flag and with moment of inertia 0, and is axial only
TrussStiffnessIsAxial(k, E, A, dx, dy) ==
    /\ k = compute_stiffness(E, A, Zero, dx, dy, FALSE)
    /\ \A r \in 0..5, c \in 0..5 : k[r][c] = AxialEntry(E, A, dx, dy, r, c)

\* C13: the stiffness matrix computed for a truss-flagged element, whatever
\* moment of inertia its section holds, equals that of the same element with
\* the flag unset and moment of inertia 0; its bending and shear entries are
\* zero and only the axial block is non-zero
C13_TrussEqualsZeroInertia ==
    SolveReturned =>
        \A i \in 1..Len(beams) :
            (beams[i].is_truss /\ BeamValid(Sys, beams[i])) =>
                TrussStiffnessIsAxial(beams[i].k_matrix,
                    MaterialOf(Sys, beams[i], Zero).youngs_modulus,
                    ShapeOf(Sys, beams[i], Zero).area,
                    NodePosition(Sys, beams[i].nodes[2])[1]
                        - NodePosition(Sys, beams[i].nodes[1])[1],
                    NodePosition(Sys, beams[i].nodes[2])[2]
                        - NodePosition(Sys, beams[i].nodes[1])[2])

\* C13 witness: the stiffness of an inclined truss-flagged element whose
\* section has a non-zero moment of inertia was computed
C13_Witness ==
    /\ SolveReturned
    /\ \E i \in 1..Len(beams) :
           /\ beams[i].is_truss /\ BeamValid(Sys, beams[i])
           /\ ShapeOf(Sys, beams[i], Zero).moment_of_inertia # Zero
           /\ NodePosition(Sys, beams[i].nodes[1])[1] # NodePosition(Sys, beams[i].nodes[2])[1]
           /\ NodePosition(Sys, beams[i].nodes[1])[2] # NodePosition(Sys, beams[i].nodes[2])[2]
           /\ beams[i].k_matrix[0][1] # Zero

\* what identifies a beam apart from its endpoints and its results
BeamIdentity(b) == <<b.material_idx, b.shape_idx, b.is_truss>>

\* the beams of the list bs that do not have node k as an endpoint
BeamsAwayFrom(bs, k) ==
    LET Away(b) == k \notin {b.nodes[1], b.nodes[2]}
    IN  SelectSeq(bs, Away)

\* beam after is beam before renumbered for the removal of node k, and an
\* endpoint that named a node still names that node
RenumberedBeam(before, after, k) ==
    /\ BeamIdentity(after) = BeamIdentity(before)
    /\ \A end \in 1..2 :
           /\ after.nodes[end] = IF before.nodes[end] > k THEN before.nodes[end] - 1
                                  ELSE before.nodes[end]
           /\ before.nodes[end] \in 0..(Len(nodes) - 1) =>
                  /\ after.nodes[end] \in 0..(Len(nodes) - 2)
                  /\ nodes'[after.nodes[end] + 1] = nodes[before.nodes[end] + 1]

\* the step removed node k with exactly the beams at k
RemovedNode(k) ==
    /\ nodes' = RemoveAt(nodes, k + 1)
    /\ Len(beams') = Len(BeamsAwayFrom(beams, k))
    /\ \A i \in 1..Len(beams') : RenumberedBeam(BeamsAwayFrom(beams, k)[i], beams'[i], k)

\* C14: "Remove Node" on node k deletes exactly the beams with k as an
\* endpoint; every surviving beam keeps its two nodes: an endpoint index
\* above k is decremented, the others are unchanged, and all stay in range
C14_RemoveNodeRenumbersBeams ==
    [][op' = "RemoveNode" => \E k \in 0..(Len(nodes) - 1) : RemovedNode(k)]_vars

\* C14 witness: a node was removed, a beam at it went and the surviving beam
\* had an endpoint renumbered
C14_Witness ==
    /\ op = "RemoveNode" /\ edits = 1
    /\ Len(nodes) = 2 /\ Len(beams) = 1
    /\ beams[1].nodes \in {<<0, 1>>, <<1, 0>>}
    /\ nodes[1].position = <<3, 0>> /\ nodes[2].position = <<3, 4>>

\* the beams of the list, each as the user entered it
Entered(bs) == [j \in 1..Len(bs) |-> <<bs[j].nodes, BeamIdentity(bs[j])>>]

BeamsNotOfShape(bs, i) ==
    LET Other(b) == b.shape_idx # i
    IN  SelectSeq(bs, Other)

BeamsNotOfMaterial(bs, i) ==
    LET Other(b) == b.material_idx # i
    IN  SelectSeq(bs, Other)

\* C15: "Remove Profile" on entry i deletes the beams whose section index is
\* i and no other beam, and "Remove Material" on entry i deletes the beams
\* whose material index is i and no other beam
C15_CatalogRemovalCascades ==
    [][/\ op' = "RemoveProfile" =>
            \E i \in 0..(Len(beam_profiles_list) - 1) :
                /\ beam_profiles_list' = RemoveAt(beam_profiles_list, i + 1)
                /\ Entered(beams') = Entered(BeamsNotOfShape(beams, i))
       /\ op' = "RemoveMaterial" =>
            \E i \in 0..(Len(materials_list) - 1) :
                /\ materials_list' = RemoveAt(materials_list, i + 1)
                /\ Entered(beams') = Entered(BeamsNotOfMaterial(beams, i))]_vars

\* C15 witness: a profile was removed from a model of two beams, one beam
\* went with it and the other stayed
C15_Witness ==
    /\ op = "RemoveProfile" /\ edits = 1
    /\ Len(nodes) = 3 /\ Len(beams) = 1

\* C16: solve_system leaves the applied forces as the caller set them: every
\* DOF index the vector has both before and after the call holds the same
\* value, whatever status the call returns
C16_ForcesPreserved ==
    SolveReturned =>
        \A d \in DOMAIN pre_forces \cap DOMAIN forces : forces[d] = pre_forces[d]

\* C16 witness: a call resized a force vector that holds a non-zero force
C16_Witness ==
    /\ SolveReturned
    /\ Size(pre_forces) # Size(forces)
    /\ \E d \in DOMAIN pre_forces \cap DOMAIN forces : pre_forces[d] # Zero

\* C17: after a call that returned 0 the reaction vector of the system has
\* 3N entries and is K u - F for the displacement the call computed
C17_ReactionsReadable ==
    (SolveReturned /\ status = 0) =>
        /\ Size(reactions) = 3 * Len(nodes)
        /\ reactions = call.reactions

\* the entries of the list free that are DOFs of node k
ListedDofsOfNode(free, k) ==
    {free[i] : i \in {j \in 1..Len(free) : free[j] \div 3 = k}}

\* the number of nodes whose constraint type is one of types
NodeCount(types) ==
    Cardinality({i \in 1..Len(nodes) : nodes[i].constraint_type \in types})

\* the list free holds, for each node, what its constraint type leaves free,
\* in strictly increasing order
FreeDofListCorrect(free) ==
    /\ \A k \in 0..(Len(nodes) - 1) :
           ListedDofsOfNode(free, k) =
               IF nodes[k + 1].constraint_type \in {"Free", "Slider"}
               THEN {3 * k, 3 * k + 1, 3 * k + 2}
               ELSE IF nodes[k + 1].constraint_type = "FixedPin" THEN {3 * k + 2}
               ELSE {}
    /\ \A i \in 1..(Len(free) - 1) : free[i] < free[i + 1]
    /\ Len(free) = 3 * NodeCount({"Free", "Slider"}) + NodeCount({"FixedPin"})

StageRank(stage) ==
    CASE stage = "idle" -> 0
      [] stage = "formulate" -> 1
      [] stage = "assemble" -> 2
      [] stage = "reduce" -> 3
      [] stage = "solve" -> 4
      [] stage = "post" -> 5

\* the results that post-processing writes
PostProcessed(S) ==
    [beams |-> [i \in 1..Len(S.beams) |-> BeamOutputs(S.beams[i])],
     max_stress |-> S.max_stress, min_stress |-> S.min_stress]

StiffnessOf(bs) == [i \in 1..Len(bs) |-> bs[i].k_matrix]

\* one step of a call keeps the order of the stages
StageStep ==
    /\ pc'.stage # "idle" =>
           /\ StageRank(pc'.stage) >= StageRank(pc.stage)
           /\ StageRank(pc'.stage) = StageRank(pc.stage) => pc.stage = "formulate"
    /\ pc'.stage = "assemble" => pc'.index = Len(beams')
    /\ StiffnessOf(beams') # StiffnessOf(beams) => pc.stage = "formulate"
    /\ global_k_matrix' # global_k_matrix =>
           pc.stage = "assemble" /\ pc.index = Len(beams)
    /\ displacement' # displacement => pc.stage \in {"idle", "solve"}
    /\ pc'.stage = "post" => pc'.written
    /\ PostProcessed(Sys') # PostProcessed(Sys) => pc.stage = "post" /\ pc.written
    /\ (pc.stage # "idle" /\ pc'.stage = "idle" /\ status' = 0) =>
           pc.stage = "post" /\ pc.written

\* C19: in every call the stages run in the order formulate every element,
\* assemble, classify the DOFs, solve, post-process: no stiffness matrix is
\* computed once the assembly has started, the assembly starts with every
\* element formulated, and the post-processing results are written only
\* after the solve of the same call has written the displacement
C19_StagesRunInOrder == [][StageStep]_vars

\* C19 witness: a call on a model of two beams has formulated both, has
\* written the displacement and stands before the post-processing
C19_Witness ==
    /\ pc.stage = "post" /\ pc.written /\ pc.index = 2
    /\ ~AllZero(displacement)

\* the global DOF of local index i of beam b
GlobalDof(b, i) == b.nodes[(i \div 3) + 1] * 3 + (i % 3)

\* the (beam, i, j) whose local entry (i, j) lands on global entry (r, c)
Contributions(bs, r, c) ==
    {t \in (1..Len(bs)) \X (0..5) \X (0..5) :
        GlobalDof(bs[t[1]], t[2]) = r /\ GlobalDof(bs[t[1]], t[3]) = c}

\* the sum of the local entries named by the set ts
RECURSIVE ContributionSum(_, _)
ContributionSum(bs, ts) ==
    IF ts = {} THEN Zero
    ELSE RAdd(bs[(CHOOSE t \in ts : TRUE)[1]].k_matrix[(CHOOSE t \in ts : TRUE)[2]]
                                                      [(CHOOSE t \in ts : TRUE)[3]],
              ContributionSum(bs, ts \ {CHOOSE t \in ts : TRUE}))

\* C20: the assembled matrix is 3N x 3N, its entry (r, c) is the sum of the
\* k_matrix(i, j) of every beam and local pair (i, j) whose DOFs are (r, c),
\* zero where there is none, and every order of the beam list gives the
\* same matrix
C20_AssemblySuperposes ==
    SolveReturned =>
        /\ DOMAIN global_k_matrix = 0..(3 * Len(nodes) - 1)
        /\ \A r, c \in 0..(3 * Len(nodes) - 1) :
               /\ DOMAIN global_k_matrix[r] = 0..(3 * Len(nodes) - 1)
               /\ global_k_matrix[r][c] =
                      ContributionSum(beams, Contributions(beams, r, c))
        /\ \A p \in Permutations(1..Len(beams)) :
               assemble_global_stiffness([i \in 1..Len(beams) |-> beams[p[i]]],
                                         Len(nodes)) = global_k_matrix

\* C20 witness: two elements of different stiffness share a node, and an
\* entry of that node holds the sum of two non-zero contributions
C20_Witness ==
    /\ SolveReturned
    /\ Len(nodes) = 3 /\ Len(beams) = 2
    /\ beams[1].k_matrix # beams[2].k_matrix
    /\ \E r, c \in 0..8 :
           /\ Cardinality(Contributions(beams, r, c)) = 2
           /\ \A t \in Contributions(beams, r, c) :
                  beams[t[1]].k_matrix[t[2]][t[3]] # Zero

\* the Slider node with exactly ci Slider nodes before it
SliderNumber(ci) ==
    CHOOSE k \in 0..(Len(nodes) - 1) :
        /\ nodes[k + 1].constraint_type = "Slider"
        /\ Cardinality({i \in 0..(k - 1) : nodes[i + 1].constraint_type = "Slider"}) = ci

\* C21: the constraint matrix of a call has one row per Slider node, in node
\* order; a row is non-zero only in the columns where its node's x and y
\* DOFs stand in the free-DOF list; and the system is solved without
\* multipliers exactly when the model has no Slider node
C21_ConstraintRows ==
    (SolveReturned /\ status = 0) =>
        /\ Size(call.C_r) = NodeCount({"Slider"})
        /\ \A ci \in DOMAIN call.C_r :
               /\ DOMAIN call.C_r[ci] = 0..(call.nf - 1)
               /\ \A j \in 0..(call.nf - 1) :
                      call.C_r[ci][j] # Zero =>
                          call.free[j + 1] \in {SliderNumber(ci) * 3, SliderNumber(ci) * 3 + 1}
        /\ Size(call.lambda) = Size(call.C_r)
        /\ (call.augmented_size = call.nf) <=> (NodeCount({"Slider"}) = 0)
        /\ Size(call.K_r) = call.nf

\* C21 witness: a model with a FixedPin node before its one Slider node on an
\* inclined track was solved: the row has two non-zero entries, in the second
\* and third column
C21_Witness ==
    /\ SolveReturned /\ status = 0
    /\ Size(call.C_r) = 1 /\ call.nf = 4
    /\ call.C_r[0][1] # Zero /\ call.C_r[0][2] # Zero
    /\ call.augmented_size = 5

\* P / A + maxM / Z and P / A - maxM / Z from the stored results of beam b
\* and its section
TensionSide(b, shape) ==
    RAdd(RDiv(b.axial_force, shape.area), RDiv(b.max_moment, shape.section_modulus))

CompressionSide(b, shape) ==
    RSub(RDiv(b.axial_force, shape.area), RDiv(b.max_moment, shape.section_modulus))

\* x is one of a, b and neither is larger in magnitude
LargerInMagnitude(x, a, b) ==
    /\ x \in {a, b}
    /\ ~RLt(RAbs(x), RAbs(a))
    /\ ~RLt(RAbs(x), RAbs(b))

\* C22: the stored stress of a beam whose section modulus is not below the
\* threshold is the one of P/A + maxM/Z and P/A - maxM/Z that is larger in
\* absolute value, sign kept; with a section modulus below the threshold it
\* is P/A
C22_CombinedStress ==
    (SolveReturned /\ status = 0) =>
        \A i \in 1..Len(beams) :
            BeamValid(Sys, beams[i]) =>
                IF ShapeOf(Sys, beams[i], Zero).section_modulus = Zero
                THEN beams[i].stress =
                         RDiv(beams[i].axial_force, ShapeOf(Sys, beams[i], Zero).area)
                ELSE LargerInMagnitude(beams[i].stress,
                                       TensionSide(beams[i], ShapeOf(Sys, beams[i], Zero)),
                                       CompressionSide(beams[i], ShapeOf(Sys, beams[i], Zero)))

\* C22 witness: a beam in compression and bending was solved and the
\* compression side, the larger one, is stored with its sign
C22_Witness ==
    /\ SolveReturned /\ status = 0
    /\ \E i \in 1..Len(beams) :
           /\ ShapeOf(Sys, beams[i], Zero).section_modulus # Zero
           /\ RLt(beams[i].axial_force, Zero)
           /\ RGt(beams[i].max_moment, Zero)
           /\ RLt(beams[i].stress, Zero)
           /\ beams[i].stress # TensionSide(beams[i], ShapeOf(Sys, beams[i], Zero))

\* x is the largest (smallest) of the stresses stored in the beams
IsMaxStress(x) ==
    /\ \E i \in 1..Len(beams) : x = beams[i].stress
    /\ \A i \in 1..Len(beams) : ~RLt(x, beams[i].stress)

IsMinStress(x) ==
    /\ \E i \in 1..Len(beams) : x = beams[i].stress
    /\ \A i \in 1..Len(beams) : ~RLt(beams[i].stress, x)

\* C23: after a solve that returned 0 on a model with at least one beam,
\* max_stress and min_stress are the maximum and the minimum of the stress
\* of the beams now in the model
C23_StressRangeOfCurrentBeams ==
    (SolveReturned /\ status = 0 /\ Len(beams) >= 1) =>
        IsMaxStress(max_stress) /\ IsMinStress(min_stress)

\* the same where no stored stress is NaN
C23_StressRangeOfCurrentBeamsNoNaN ==
    (/\ SolveReturned /\ status = 0 /\ Len(beams) >= 1
     /\ \A i \in 1..Len(beams) : ~IsNaN(beams[i].stress)) =>
        IsMaxStress(max_stress) /\ IsMinStress(min_stress)

\* C24: after every solve_system call total_dof is 3 * (number of nodes) and
\* displacement and forces both have exactly total_dof entries
C24_VectorsSizedToNodes ==
    SolveReturned =>
        /\ total_dof = 3 * Len(nodes)
        /\ Size(displacement) = total_dof
        /\ Size(forces) = total_dof

\* entry idx of the catalog list is there after the step and is the entry
\* that stood at idx before it
SameEntry(before, after, idx) ==
    /\ idx >= 0 /\ idx < Len(before) /\ idx < Len(after)
    /\ after[idx + 1] = before[idx + 1]

\* C25: after Remove Material or Remove Profile every surviving beam refers
\* to the catalog entries (name and values) it referred to before
C25_CatalogRemovalKeepsReferences ==
    [][op' \in {"RemoveProfile", "RemoveMaterial"} =>
          \A j \in 1..Len(beams') :
              /\ SameEntry(beam_profiles_list, beam_profiles_list', beams'[j].shape_idx)
              /\ SameEntry(materials_list, materials_list', beams'[j].material_idx)]_vars

\* the node that stood at index j before node k was removed carries after
\* the step the Fx, Fy and moment it carried before
ForceKept(j, k) ==
    \A d \in 0..2 :
        /\ 3 * j + d \in DOMAIN forces
        /\ 3 * (IF j > k THEN j - 1 ELSE j) + d \in DOMAIN forces'
        /\ forces'[3 * (IF j > k THEN j - 1 ELSE j) + d] = forces[3 * j + d]

\* C26: after "Remove Node" on node k and the solve that follows, every
\* surviving node carries the applied force it carried before
C26_RemoveNodeKeepsForces ==
    [][op' = "RemoveNode" =>
          \E k \in 0..(Len(nodes) - 1) :
              /\ RemovedNode(k)
              /\ \A j \in (0..(Len(nodes) - 1)) \ {k} : ForceKept(j, k)]_vars

\* C27: after "Add Node" and the solve that follows, the three applied-force
\* entries of the new node, the last one, are zero
C27_NewNodeUnloaded ==
    (op = "AddNode" /\ ~crashed) =>
        \A d \in 0..2 :
            /\ 3 * (Len(nodes) - 1) + d \in DOMAIN forces
            /\ forces[3 * (Len(nodes) - 1) + d] = Zero

\* C28: when a load has aborted with load_error the system is consistent:
\* forces and displacement have 3 * (number of nodes) entries and every beam
\* has node, material and section indices in range
C28_AbortedLoadLeavesConsistentSystem ==
    (op = "LoadFileAbort" /\ load_error) =>
        /\ Size(forces) = 3 * Len(nodes)
        /\ Size(displacement) = 3 * Len(nodes)
        /\ \A i \in 1..Len(beams) :
               /\ NodeInRange(Sys, beams[i].nodes[1])
               /\ NodeInRange(Sys, beams[i].nodes[2])
               /\ MaterialInRange(Sys, beams[i])
               /\ ShapeInRange(Sys, beams[i])

\* C29: after every solve_system call that returned 0, min_stress <=
\* max_stress
C29_StressRangeOrdered ==
    (SolveReturned /\ status = 0) =>
        (min_stress = max_stress \/ RLt(min_stress, max_stress))

\* the frames enqueued in the current recording that the overflow rule did
\* not drop
FramesToSave == {<<session, i>> : i \in 0..(recorded_frames - 1)} \ dropped

\* C30: when the GUI thread starts building the GIF after it saw the frame
\* queue empty, every frame enqueued in the recording and not dropped by the
\* overflow rule is saved on disk
C30_FramesSavedBeforeGif ==
    [][(gui_pc = "build" /\ gui_pc' = "frame" /\ seen_empty) =>
           FramesToSave \subseteq files]_vars

\* the part of it that does not depend on saveToFile succeeding: no frame
\* is in the writer's hands, popped and not yet saved, when the build starts
C30_NoFrameInFlightAtGif ==
    [][(gui_pc = "build" /\ gui_pc' = "frame" /\ seen_empty) => task = <<>>]_vars

====
